---- MODULE Spec2Model ----
(***************************************************************************)
(* Envelope encryption engine of packages/crypto/src/encryption.ts.        *)
(*                                                                         *)
(* Buffers are sequences of bytes (0..255); strings are sequences of       *)
(* one-character strings, so hex encoding and decoding are computed and    *)
(* not assumed.  The AES-256-GCM primitive of node:crypto is modelled as a *)
(* counter-mode stream cipher with a polynomial authenticator (the shape   *)
(* of GCM: CTR encryption plus a GHASH-like tag over the ciphertext,       *)
(* masked by a key-and-nonce dependent block).  The secure random source   *)
(* is modelled as an ideal source: every draw returns a value it has not   *)
(* returned before.                                                        *)
(***************************************************************************)
EXTENDS Integers, Sequences, FiniteSets, TLC

(***************************************************************************)
(* Program constants                                                       *)
(***************************************************************************)
ALG == "aes-256-gcm"
NONCE_LENGTH == 12
TAG_LENGTH == 16
KEY_LENGTH == 32

(***************************************************************************)
(* Bounds of the model                                                     *)
(***************************************************************************)
MaxRecords == 2
MaxWraps == 1
MaxRepeats == 3
\* records the store of a server holds at most
MaxStored == 2
\* requests in flight at most
MaxInFlight == 2

(***************************************************************************)
(* Hex strings: Buffer.toString('hex'), Buffer.from(s, 'hex') and the      *)
(* regular expression /^[0-9a-fA-F]+$/                                     *)
(***************************************************************************)
HexLower == <<"0","1","2","3","4","5","6","7","8","9","a","b","c","d","e","f">>
HexUpper == <<"0","1","2","3","4","5","6","7","8","9","A","B","C","D","E","F">>

HexChars == {HexLower[i] : i \in 1..16} \cup {HexUpper[i] : i \in 1..16}

IsHexChar(c) == c \in HexChars

HexValues ==
    [c \in HexChars |-> (CHOOSE i \in 1..16 : HexLower[i] = c \/ HexUpper[i] = c) - 1]

HexValue(c) == HexValues[c]

\* /^[0-9a-fA-F]+$/.test(hex): at least one character, all of them hex digits
HexRegexTest(hex) == Len(hex) > 0 /\ \A i \in 1..Len(hex) : IsHexChar(hex[i])

\* buf.toString('hex'): two lower-case digits per byte
ToHex(buf) ==
    [k \in 1..(2 * Len(buf)) |->
        LET b == buf[(k + 1) \div 2]
        IN  IF k % 2 = 1 THEN HexLower[(b \div 16) + 1] ELSE HexLower[(b % 16) + 1]]
    \o <<>>

\* Buffer.from(s, 'hex'): decodes whole pairs of hex digits up to the first
\* pair that is not hex; a trailing single digit is dropped
RECURSIVE HexPairsFrom(_, _)
HexPairsFrom(s, k) ==
    IF 2 * k + 2 <= Len(s) /\ IsHexChar(s[2 * k + 1]) /\ IsHexChar(s[2 * k + 2])
    THEN HexPairsFrom(s, k + 1)
    ELSE k

HexPairs(s) == HexPairsFrom(s, 0)

FromHex(s) ==
    [i \in 1..HexPairs(s) |-> 16 * HexValue(s[2 * i - 1]) + HexValue(s[2 * i])] \o <<>>

(***************************************************************************)
(* The secure random source (crypto.randomBytes, crypto.randomUUID).       *)
(* c is the number of values drawn so far; the draw is determined by c and *)
(* differs from every draw with another count below 256.                   *)
(***************************************************************************)
RandomBytes(n, c) == [i \in 1..n |-> (c * 37 + i * 11 + 160) % 256] \o <<>>

\* crypto.randomUUID(): 16 random bytes, version 4 and variant bits set,
\* printed as 8-4-4-4-12 hex digits
UuidBytes(c) ==
    LET r == RandomBytes(16, c)
    IN  [i \in 1..16 |-> IF i = 7 THEN 64 + (r[i] % 16)
                         ELSE IF i = 9 THEN 128 + (r[i] % 64)
                         ELSE r[i]] \o <<>>

RandomUUID(c) ==
    LET h == ToHex(UuidBytes(c))
    IN  SubSeq(h, 1, 8) \o <<"-">> \o SubSeq(h, 9, 12) \o <<"-">> \o
        SubSeq(h, 13, 16) \o <<"-">> \o SubSeq(h, 17, 20) \o <<"-">> \o
        SubSeq(h, 21, 32)

(***************************************************************************)
(* JSON.stringify / JSON.parse on the payload values of the model          *)
(***************************************************************************)
JNum1 == [t |-> "number", v |-> "1"]
JStrA == [t |-> "string", v |-> "a"]
JObjA == [t |-> "object", v |-> "a:1"]
JNull == [t |-> "null", v |-> ""]
JNaN  == [t |-> "number", v |-> "NaN"]
JUndefined == [t |-> "undefined", v |-> ""]

\* JSON.stringify(undefined) is undefined, not a text
NotSerialized == <<-1>>

\* JSON.stringify(payload) as UTF-8 bytes
JsonStringify(p) ==
    IF p = JUndefined THEN NotSerialized
    ELSE IF p = JNum1 THEN <<49>>                           \* 1
    ELSE IF p = JStrA THEN <<34, 97, 34>>                   \* "a"
    ELSE IF p = JObjA THEN <<123, 34, 97, 34, 58, 49, 125>> \* {"a":1}
    ELSE <<110, 117, 108, 108>>                             \* null (also NaN)

IsJsonText(bytes) ==
    bytes \in {<<49>>, <<34, 97, 34>>, <<123, 34, 97, 34, 58, 49, 125>>,
               <<110, 117, 108, 108>>}

\* JSON.parse(text): the value, for a text JSON.parse accepts
JsonParse(bytes) ==
    IF bytes = <<49>> THEN JNum1
    ELSE IF bytes = <<34, 97, 34>> THEN JStrA
    ELSE IF bytes = <<123, 34, 97, 34, 58, 49, 125>> THEN JObjA
    ELSE JNull

(***************************************************************************)
(* The authenticated cipher behind crypto.createCipheriv(ALG, key, nonce)  *)
(* and crypto.createDecipheriv(ALG, key, nonce)                            *)
(***************************************************************************)
RECURSIVE WeightedSum(_, _)
WeightedSum(buf, i) ==
    IF i > Len(buf) THEN 0 ELSE buf[i] * i + WeightedSum(buf, i + 1)

\* what the cipher derives from a key or a nonce
Digest(buf) == WeightedSum(buf, 1) % 257

\* counter mode: byte i of the key stream, from the digests of key and nonce
KeyStream(kd, nd, i) == (kd * 5 + nd * 3 + i * 7) % 256

CtrEncrypt(key, nonce, pt) ==
    LET kd == Digest(key)
        nd == Digest(nonce)
    IN  [i \in 1..Len(pt) |-> (pt[i] + KeyStream(kd, nd, i)) % 256] \o <<>>

CtrDecrypt(key, nonce, ct) ==
    LET kd == Digest(key)
        nd == Digest(nonce)
    IN  [i \in 1..Len(ct) |-> (ct[i] + 256 - KeyStream(kd, nd, i)) % 256] \o <<>>

\* polynomial hash of the ciphertext and its length at the point h
RECURSIVE PolyHash(_, _, _)
PolyHash(ct, h, i) ==
    IF i > Len(ct) THEN (Len(ct) * h) % 257
    ELSE (h * (ct[i] + PolyHash(ct, h, i + 1))) % 257

\* one of the eight 16-bit lanes of the 16-byte tag
TagLane(kd, nd, ct, j) ==
    LET h    == 1 + ((kd + 31 * j) % 256)
        mask == (kd * (j + 1) + nd * (j + 2) + j) % 257
    IN  (mask + PolyHash(ct, h, 1)) % 257

\* cipher.getAuthTag(): TAG_LENGTH bytes, two for each lane
RECURSIVE TagBytes(_, _, _, _)
TagBytes(kd, nd, ct, j) ==
    IF 2 * j > TAG_LENGTH THEN <<>>
    ELSE LET t == TagLane(kd, nd, ct, j)
         IN  <<t \div 256, t % 256>> \o TagBytes(kd, nd, ct, j + 1)

AuthTag(key, nonce, ct) == TagBytes(Digest(key), Digest(nonce), ct, 1)

\* createCipheriv / createDecipheriv accept a key of exactly 32 bytes for
\* aes-256-gcm and throw a RangeError otherwise
CipherKeyOk(key) == Len(key) = 32

(***************************************************************************)
(* Errors and results                                                      *)
(***************************************************************************)
NoErr == [msg |-> "", field |-> "", expected |-> 0, got2 |-> 0, code |-> ""]

HexError(fieldName) ==
    [msg |-> "Invalid hex string for", field |-> fieldName,
     expected |-> 0, got2 |-> 0, code |-> ""]

\* got2 is hex.length, twice the number the message prints
LengthError(fieldName, expectedByteLength, hexLength) ==
    [msg |-> "Invalid length for", field |-> fieldName,
     expected |-> expectedByteLength, got2 |-> hexLength, code |-> ""]

KeyLengthError ==
    [msg |-> "Invalid Master Key length: expected 32 bytes", field |-> "",
     expected |-> 0, got2 |-> 0, code |-> ""]

UnwrapError ==
    [msg |-> "Failed to unwrap DEK: potential tampering or invalid Master Key",
     field |-> "", expected |-> 0, got2 |-> 0, code |-> ""]

DecryptError ==
    [msg |-> "Failed to decrypt payload: potential tampering or invalid DEK",
     field |-> "", expected |-> 0, got2 |-> 0, code |-> ""]

\* the RangeError node:crypto throws for a key of the wrong size
NativeKeyError ==
    [msg |-> "Invalid key length", field |-> "", expected |-> 0, got2 |-> 0,
     code |-> "ERR_CRYPTO_INVALID_KEYLEN"]

\* the TypeError cipher.update(undefined, 'utf8') throws
ArgTypeError ==
    [msg |-> "The \"data\" argument must be of type string or an instance of Buffer",
     field |-> "", expected |-> 0, got2 |-> 0, code |-> "ERR_INVALID_ARG_TYPE"]

NoVal == <<>>

\* a call's outcome: the value returned or the error thrown, the calls it
\* made in order (ev), the number of random draws it made and the
\* authenticated encryptions it performed (enc)
Return(v, events, n, encs) ==
    [ok |-> TRUE, val |-> v, err |-> NoErr, ev |-> events, draws |-> n, enc |-> encs]

Throw(e, events, n, encs) ==
    [ok |-> FALSE, val |-> NoVal, err |-> e, ev |-> events, draws |-> n, enc |-> encs]

(***************************************************************************)
(* encryption.ts                                                           *)
(***************************************************************************)
\* validateHex without its length check
validateHexNoLength(hex, expectedByteLength, fieldName) ==
    IF ~HexRegexTest(hex) THEN HexError(fieldName) ELSE NoErr

\* validateHex without its regular expression
validateHexNoFormat(hex, expectedByteLength, fieldName) ==
    IF Len(hex) # expectedByteLength * 2
    THEN LengthError(fieldName, expectedByteLength, Len(hex))
    ELSE NoErr

\* validateHex with its two checks in the other order
validateHexLengthFirst(hex, expectedByteLength, fieldName) ==
    IF Len(hex) # expectedByteLength * 2
    THEN LengthError(fieldName, expectedByteLength, Len(hex))
    ELSE IF ~HexRegexTest(hex) THEN HexError(fieldName) ELSE NoErr

validateHex(hex, expectedByteLength, fieldName) ==
    IF ~HexRegexTest(hex) THEN HexError(fieldName)
    ELSE IF Len(hex) # expectedByteLength * 2
         THEN LengthError(fieldName, expectedByteLength, Len(hex))
         ELSE NoErr

\* generateDEK returning one DEK for every record
generateDEKCached(c) == RandomBytes(KEY_LENGTH, 0)

generateDEK(c) == RandomBytes(KEY_LENGTH, c)

\* encryptPayload returning a nonce it draws again instead of the one it used
encryptPayloadOtherNonce(payload, dek, c) ==
    LET jsonPayload == JsonStringify(payload)
        nonce       == RandomBytes(NONCE_LENGTH, c)
    IN  IF ~CipherKeyOk(dek)
        THEN Throw(NativeKeyError, <<"randomBytes", "createCipheriv">>, 1, <<>>)
        ELSE LET encrypted == CtrEncrypt(dek, nonce, jsonPayload)
                 tag       == AuthTag(dek, nonce, encrypted)
             IN  Return([payload_nonce |-> ToHex(RandomBytes(NONCE_LENGTH, c + 100)),
                         payload_ct    |-> ToHex(encrypted),
                         payload_tag   |-> ToHex(tag)],
                        <<"randomBytes", "createCipheriv", "update", "final", "getAuthTag">>,
                        1, <<[key |-> dek, nonce |-> nonce]>>)

\* encryptPayload drawing a nonce of TAG_LENGTH bytes
encryptPayloadLongNonce(payload, dek, c) ==
    LET jsonPayload == JsonStringify(payload)
        nonce       == RandomBytes(TAG_LENGTH, c)
    IN  IF ~CipherKeyOk(dek)
        THEN Throw(NativeKeyError, <<"randomBytes", "createCipheriv">>, 1, <<>>)
        ELSE LET encrypted == CtrEncrypt(dek, nonce, jsonPayload)
                 tag       == AuthTag(dek, nonce, encrypted)
             IN  Return([payload_nonce |-> ToHex(nonce),
                         payload_ct    |-> ToHex(encrypted),
                         payload_tag   |-> ToHex(tag)],
                        <<"randomBytes", "createCipheriv", "update", "final", "getAuthTag">>,
                        1, <<[key |-> dek, nonce |-> nonce]>>)

encryptPayload(payload, dek, c) ==
    LET jsonPayload == JsonStringify(payload)
        nonce       == RandomBytes(NONCE_LENGTH, c)
    IN  IF ~CipherKeyOk(dek)
        THEN Throw(NativeKeyError, <<"randomBytes", "createCipheriv">>, 1, <<>>)
        ELSE IF jsonPayload = NotSerialized
        THEN Throw(ArgTypeError, <<"randomBytes", "createCipheriv", "update">>, 1, <<>>)
        ELSE LET encrypted == CtrEncrypt(dek, nonce, jsonPayload)
                 tag       == AuthTag(dek, nonce, encrypted)
             IN  Return([payload_nonce |-> ToHex(nonce),
                         payload_ct    |-> ToHex(encrypted),
                         payload_tag   |-> ToHex(tag)],
                        <<"randomBytes", "createCipheriv", "update", "final", "getAuthTag">>,
                        1, <<[key |-> dek, nonce |-> nonce]>>)

\* wrapDEK without its master key check
wrapDEKNoKeyCheck(dek, masterKey, c) ==
    LET nonce == RandomBytes(NONCE_LENGTH, c)
    IN  IF ~CipherKeyOk(masterKey)
        THEN Throw(NativeKeyError, <<"randomBytes", "createCipheriv">>, 1, <<>>)
        ELSE LET wrapped == CtrEncrypt(masterKey, nonce, dek)
                 tag     == AuthTag(masterKey, nonce, wrapped)
             IN  Return([dek_wrap_nonce |-> ToHex(nonce),
                         dek_wrapped    |-> ToHex(wrapped),
                         dek_wrap_tag   |-> ToHex(tag)],
                        <<"randomBytes", "createCipheriv", "update", "final", "getAuthTag">>,
                        1, <<[key |-> masterKey, nonce |-> nonce]>>)

\* wrapDEK wrapping only the first half of the DEK
wrapDEKHalf(dek, masterKey, c) ==
    IF Len(masterKey) # KEY_LENGTH THEN Throw(KeyLengthError, <<>>, 0, <<>>)
    ELSE LET nonce   == RandomBytes(NONCE_LENGTH, c)
             wrapped == CtrEncrypt(masterKey, nonce, SubSeq(dek, 1, Len(dek) \div 2))
             tag     == AuthTag(masterKey, nonce, wrapped)
         IN  Return([dek_wrap_nonce |-> ToHex(nonce),
                     dek_wrapped    |-> ToHex(wrapped),
                     dek_wrap_tag   |-> ToHex(tag)],
                    <<"randomBytes", "createCipheriv", "update", "final", "getAuthTag">>,
                    1, <<[key |-> masterKey, nonce |-> nonce]>>)

\* wrapDEK with a constant nonce instead of a fresh draw
wrapDEKFixedNonce(dek, masterKey, c) ==
    IF Len(masterKey) # KEY_LENGTH THEN Throw(KeyLengthError, <<>>, 0, <<>>)
    ELSE LET nonce   == RandomBytes(NONCE_LENGTH, 0)
             wrapped == CtrEncrypt(masterKey, nonce, dek)
             tag     == AuthTag(masterKey, nonce, wrapped)
         IN  Return([dek_wrap_nonce |-> ToHex(nonce),
                     dek_wrapped    |-> ToHex(wrapped),
                     dek_wrap_tag   |-> ToHex(tag)],
                    <<"createCipheriv", "update", "final", "getAuthTag">>,
                    0, <<[key |-> masterKey, nonce |-> nonce]>>)

\* wrapDEK that stores the DEK as it is
wrapDEKPlain(dek, masterKey, c) ==
    IF Len(masterKey) # KEY_LENGTH THEN Throw(KeyLengthError, <<>>, 0, <<>>)
    ELSE LET nonce == RandomBytes(NONCE_LENGTH, c)
             tag   == AuthTag(masterKey, nonce, dek)
         IN  Return([dek_wrap_nonce |-> ToHex(nonce),
                     dek_wrapped    |-> ToHex(dek),
                     dek_wrap_tag   |-> ToHex(tag)],
                    <<"randomBytes", "createCipheriv", "update", "final", "getAuthTag">>,
                    1, <<[key |-> masterKey, nonce |-> nonce]>>)

wrapDEK(dek, masterKey, c) ==
    IF Len(masterKey) # KEY_LENGTH THEN Throw(KeyLengthError, <<>>, 0, <<>>)
    ELSE LET nonce   == RandomBytes(NONCE_LENGTH, c)
             wrapped == CtrEncrypt(masterKey, nonce, dek)
             tag     == AuthTag(masterKey, nonce, wrapped)
         IN  Return([dek_wrap_nonce |-> ToHex(nonce),
                     dek_wrapped    |-> ToHex(wrapped),
                     dek_wrap_tag   |-> ToHex(tag)],
                    <<"randomBytes", "createCipheriv", "update", "final", "getAuthTag">>,
                    1, <<[key |-> masterKey, nonce |-> nonce]>>)

\* unwrapDEK returning the decrypted bytes without verifying the tag
unwrapDEKNoAuth(record, masterKey) ==
    IF Len(masterKey) # KEY_LENGTH THEN Throw(KeyLengthError, <<>>, 0, <<>>)
    ELSE
    LET e1 == validateHex(record.dek_wrap_nonce, NONCE_LENGTH, "dek_wrap_nonce")
        e2 == validateHex(record.dek_wrap_tag, TAG_LENGTH, "dek_wrap_tag")
    IN
    IF e1 # NoErr THEN Throw(e1, <<"validateHex">>, 0, <<>>)
    ELSE IF e2 # NoErr THEN Throw(e2, <<"validateHex", "validateHex">>, 0, <<>>)
    ELSE IF ~HexRegexTest(record.dek_wrapped)
    THEN Throw(HexError("dek_wrapped"), <<"validateHex", "validateHex", "test">>, 0, <<>>)
    ELSE Return(CtrDecrypt(masterKey, FromHex(record.dek_wrap_nonce),
                           FromHex(record.dek_wrapped)),
                <<"validateHex", "validateHex", "test", "createDecipheriv", "update">>,
                0, <<>>)

unwrapDEK(record, masterKey) ==
    IF Len(masterKey) # KEY_LENGTH THEN Throw(KeyLengthError, <<>>, 0, <<>>)
    ELSE
    LET e1 == validateHex(record.dek_wrap_nonce, NONCE_LENGTH, "dek_wrap_nonce")
        e2 == validateHex(record.dek_wrap_tag, TAG_LENGTH, "dek_wrap_tag")
    IN
    IF e1 # NoErr THEN Throw(e1, <<"validateHex">>, 0, <<>>)
    ELSE IF e2 # NoErr THEN Throw(e2, <<"validateHex", "validateHex">>, 0, <<>>)
    ELSE IF ~HexRegexTest(record.dek_wrapped)
    THEN Throw(HexError("dek_wrapped"), <<"validateHex", "validateHex", "test">>, 0, <<>>)
    ELSE
    LET nonce        == FromHex(record.dek_wrap_nonce)
        tag          == FromHex(record.dek_wrap_tag)
        encryptedDEK == FromHex(record.dek_wrapped)
        checked      == <<"validateHex", "validateHex", "test">>
    IN
    \* masterKey has 32 bytes here, so createDecipheriv does not throw
    IF tag = AuthTag(masterKey, nonce, encryptedDEK)
    THEN Return(CtrDecrypt(masterKey, nonce, encryptedDEK),
                checked \o <<"createDecipheriv", "setAuthTag", "update", "final">>, 0, <<>>)
    ELSE Throw(UnwrapError,
               checked \o <<"createDecipheriv", "setAuthTag", "update", "final">>, 0, <<>>)

\* what decipher.final() throws when the tag does not verify
NativeAuthError ==
    [msg |-> "Unsupported state or unable to authenticate data", field |-> "",
     expected |-> 0, got2 |-> 0, code |-> ""]

\* decryptPayload parsing the decrypted bytes without verifying the tag
decryptPayloadNoAuth(record, dek) ==
    LET e1 == validateHex(record.payload_nonce, NONCE_LENGTH, "payload_nonce")
        e2 == validateHex(record.payload_tag, TAG_LENGTH, "payload_tag")
    IN
    IF e1 # NoErr THEN Throw(e1, <<"validateHex">>, 0, <<>>)
    ELSE IF e2 # NoErr THEN Throw(e2, <<"validateHex", "validateHex">>, 0, <<>>)
    ELSE IF ~HexRegexTest(record.payload_ct)
    THEN Throw(HexError("payload_ct"), <<"validateHex", "validateHex", "test">>, 0, <<>>)
    ELSE
    LET checked == <<"validateHex", "validateHex", "test">>
    IN
    IF ~CipherKeyOk(dek)
    THEN Throw(NativeKeyError, checked \o <<"createDecipheriv">>, 0, <<>>)
    ELSE
    LET called    == checked \o <<"createDecipheriv", "update", "JSON.parse">>
        decrypted == CtrDecrypt(dek, FromHex(record.payload_nonce),
                                FromHex(record.payload_ct))
    IN  IF IsJsonText(decrypted)
        THEN Return(JsonParse(decrypted), called, 0, <<>>)
        ELSE Throw(DecryptError, called, 0, <<>>)

\* decryptPayload letting the cipher's own error through
decryptPayloadRethrow(record, dek) ==
    LET e1 == validateHex(record.payload_nonce, NONCE_LENGTH, "payload_nonce")
        e2 == validateHex(record.payload_tag, TAG_LENGTH, "payload_tag")
    IN
    IF e1 # NoErr THEN Throw(e1, <<"validateHex">>, 0, <<>>)
    ELSE IF e2 # NoErr THEN Throw(e2, <<"validateHex", "validateHex">>, 0, <<>>)
    ELSE IF ~HexRegexTest(record.payload_ct)
    THEN Throw(HexError("payload_ct"), <<"validateHex", "validateHex", "test">>, 0, <<>>)
    ELSE
    LET nonce      == FromHex(record.payload_nonce)
        tag        == FromHex(record.payload_tag)
        ciphertext == FromHex(record.payload_ct)
        checked    == <<"validateHex", "validateHex", "test">>
    IN
    IF ~CipherKeyOk(dek)
    THEN Throw(NativeKeyError, checked \o <<"createDecipheriv">>, 0, <<>>)
    ELSE
    LET called == checked \o <<"createDecipheriv", "setAuthTag", "update", "final">>
    IN
    IF tag # AuthTag(dek, nonce, ciphertext) THEN Throw(NativeAuthError, called, 0, <<>>)
    ELSE
    LET decrypted == CtrDecrypt(dek, nonce, ciphertext)
    IN  IF IsJsonText(decrypted)
        THEN Return(JsonParse(decrypted), called \o <<"JSON.parse">>, 0, <<>>)
        ELSE Throw(DecryptError, called \o <<"JSON.parse">>, 0, <<>>)

\* decryptPayload that refuses a record of another key version
decryptPayloadChecksVersion(record, dek) ==
    LET e1 == validateHex(record.payload_nonce, NONCE_LENGTH, "payload_nonce")
        e2 == validateHex(record.payload_tag, TAG_LENGTH, "payload_tag")
    IN
    IF record.mk_version # 1 THEN Throw(DecryptError, <<>>, 0, <<>>)
    ELSE IF e1 # NoErr THEN Throw(e1, <<"validateHex">>, 0, <<>>)
    ELSE IF e2 # NoErr THEN Throw(e2, <<"validateHex", "validateHex">>, 0, <<>>)
    ELSE IF ~HexRegexTest(record.payload_ct)
    THEN Throw(HexError("payload_ct"), <<"validateHex", "validateHex", "test">>, 0, <<>>)
    ELSE
    LET nonce      == FromHex(record.payload_nonce)
        tag        == FromHex(record.payload_tag)
        ciphertext == FromHex(record.payload_ct)
        checked    == <<"validateHex", "validateHex", "test">>
    IN
    IF ~CipherKeyOk(dek)
    THEN Throw(NativeKeyError, checked \o <<"createDecipheriv">>, 0, <<>>)
    ELSE
    LET called == checked \o <<"createDecipheriv", "setAuthTag", "update", "final">>
    IN
    IF tag # AuthTag(dek, nonce, ciphertext) THEN Throw(DecryptError, called, 0, <<>>)
    ELSE
    LET decrypted == CtrDecrypt(dek, nonce, ciphertext)
    IN  IF IsJsonText(decrypted)
        THEN Return(JsonParse(decrypted), called \o <<"JSON.parse">>, 0, <<>>)
        ELSE Throw(DecryptError, called \o <<"JSON.parse">>, 0, <<>>)

\* decryptPayload with JSON.parse after the try block
decryptPayloadParseOutside(record, dek) ==
    LET e1 == validateHex(record.payload_nonce, NONCE_LENGTH, "payload_nonce")
        e2 == validateHex(record.payload_tag, TAG_LENGTH, "payload_tag")
    IN
    IF e1 # NoErr THEN Throw(e1, <<"validateHex">>, 0, <<>>)
    ELSE IF e2 # NoErr THEN Throw(e2, <<"validateHex", "validateHex">>, 0, <<>>)
    ELSE IF ~HexRegexTest(record.payload_ct)
    THEN Throw(HexError("payload_ct"), <<"validateHex", "validateHex", "test">>, 0, <<>>)
    ELSE
    LET nonce      == FromHex(record.payload_nonce)
        tag        == FromHex(record.payload_tag)
        ciphertext == FromHex(record.payload_ct)
        checked    == <<"validateHex", "validateHex", "test">>
    IN
    IF ~CipherKeyOk(dek)
    THEN Throw(NativeKeyError, checked \o <<"createDecipheriv">>, 0, <<>>)
    ELSE
    LET called == checked \o <<"createDecipheriv", "setAuthTag", "update", "final">>
    IN
    IF tag # AuthTag(dek, nonce, ciphertext) THEN Throw(DecryptError, called, 0, <<>>)
    ELSE
    LET decrypted == CtrDecrypt(dek, nonce, ciphertext)
    IN  IF IsJsonText(decrypted)
        THEN Return(JsonParse(decrypted), called \o <<"JSON.parse">>, 0, <<>>)
        ELSE Throw([NoErr EXCEPT !.msg = "Unexpected token in JSON"],
                   called \o <<"JSON.parse">>, 0, <<>>)

decryptPayload(record, dek) ==
    LET e1 == validateHex(record.payload_nonce, NONCE_LENGTH, "payload_nonce")
        e2 == validateHex(record.payload_tag, TAG_LENGTH, "payload_tag")
    IN
    IF e1 # NoErr THEN Throw(e1, <<"validateHex">>, 0, <<>>)
    ELSE IF e2 # NoErr THEN Throw(e2, <<"validateHex", "validateHex">>, 0, <<>>)
    ELSE IF ~HexRegexTest(record.payload_ct)
    THEN Throw(HexError("payload_ct"), <<"validateHex", "validateHex", "test">>, 0, <<>>)
    ELSE
    LET nonce      == FromHex(record.payload_nonce)
        tag        == FromHex(record.payload_tag)
        ciphertext == FromHex(record.payload_ct)
        checked    == <<"validateHex", "validateHex", "test">>
    IN
    IF ~CipherKeyOk(dek)
    THEN Throw(NativeKeyError, checked \o <<"createDecipheriv">>, 0, <<>>)
    ELSE
    LET called == checked \o <<"createDecipheriv", "setAuthTag", "update", "final">>
    IN
    IF tag # AuthTag(dek, nonce, ciphertext) THEN Throw(DecryptError, called, 0, <<>>)
    ELSE
    LET decrypted == CtrDecrypt(dek, nonce, ciphertext)
    IN  IF IsJsonText(decrypted)
        THEN Return(JsonParse(decrypted), called \o <<"JSON.parse">>, 0, <<>>)
        ELSE Throw(DecryptError, called \o <<"JSON.parse">>, 0, <<>>)

\* encryptEnvelope leaving the master key check to wrapDEK
encryptEnvelopeLateCheck(partyId, payload, masterKey, createdAt, c) ==
    LET id                == RandomUUID(c)
        dek               == generateDEK(c + 1)
        payloadEncryption == encryptPayload(payload, dek, c + 2)
        dekWrapping       == wrapDEK(dek, masterKey, c + 3)
        before            == <<"randomUUID", "Date", "generateDEK">>
    IN
    IF ~payloadEncryption.ok
    THEN Throw(payloadEncryption.err, before \o payloadEncryption.ev,
               2 + payloadEncryption.draws, <<>>)
    ELSE IF ~dekWrapping.ok
    THEN Throw(dekWrapping.err, before \o payloadEncryption.ev \o dekWrapping.ev,
               2 + payloadEncryption.draws + dekWrapping.draws, payloadEncryption.enc)
    ELSE Return([id             |-> id,
                 partyId        |-> partyId,
                 createdAt      |-> createdAt,
                 payload_nonce  |-> payloadEncryption.val.payload_nonce,
                 payload_ct     |-> payloadEncryption.val.payload_ct,
                 payload_tag    |-> payloadEncryption.val.payload_tag,
                 dek_wrap_nonce |-> dekWrapping.val.dek_wrap_nonce,
                 dek_wrapped    |-> dekWrapping.val.dek_wrapped,
                 dek_wrap_tag   |-> dekWrapping.val.dek_wrap_tag,
                 alg            |-> "AES-256-GCM",
                 mk_version     |-> 1],
                before \o payloadEncryption.ev \o dekWrapping.ev,
                2 + payloadEncryption.draws + dekWrapping.draws,
                payloadEncryption.enc \o dekWrapping.enc)

\* createdAt stands for new Date().toISOString()
encryptEnvelope(partyId, payload, masterKey, createdAt, c) ==
    IF Len(masterKey) # KEY_LENGTH THEN Throw(KeyLengthError, <<>>, 0, <<>>)
    ELSE
    LET id                == RandomUUID(c)
        dek               == generateDEK(c + 1)
        payloadEncryption == encryptPayload(payload, dek, c + 2)
        dekWrapping       == wrapDEK(dek, masterKey, c + 3)
        before            == <<"randomUUID", "Date", "generateDEK">>
    IN
    IF ~payloadEncryption.ok
    THEN Throw(payloadEncryption.err, before \o payloadEncryption.ev,
               2 + payloadEncryption.draws, <<>>)
    ELSE IF ~dekWrapping.ok
    THEN Throw(dekWrapping.err, before \o payloadEncryption.ev \o dekWrapping.ev,
               2 + payloadEncryption.draws + dekWrapping.draws, payloadEncryption.enc)
    ELSE Return([id             |-> id,
                 partyId        |-> partyId,
                 createdAt      |-> createdAt,
                 payload_nonce  |-> payloadEncryption.val.payload_nonce,
                 payload_ct     |-> payloadEncryption.val.payload_ct,
                 payload_tag    |-> payloadEncryption.val.payload_tag,
                 dek_wrap_nonce |-> dekWrapping.val.dek_wrap_nonce,
                 dek_wrapped    |-> dekWrapping.val.dek_wrapped,
                 dek_wrap_tag   |-> dekWrapping.val.dek_wrap_tag,
                 alg            |-> "AES-256-GCM",
                 mk_version     |-> 1],
                before \o payloadEncryption.ev \o dekWrapping.ev,
                2 + payloadEncryption.draws + dekWrapping.draws,
                payloadEncryption.enc \o dekWrapping.enc)

(***************************************************************************)
(* Inputs of the model                                                     *)
(***************************************************************************)
ZeroKey   == [i \in 1..32 |-> 0] \o <<>>          \* 32 zero bytes
ReadmeKey == [i \in 1..32 |-> i - 1] \o <<>>      \* 000102...1f
ShortKey  == [i \in 1..16 |-> 16 + i] \o <<>>     \* 16 bytes
LongKey   == [i \in 1..33 |-> 200 - i] \o <<>>    \* 33 bytes
OtherDek  == [i \in 1..32 |-> 255 - i] \o <<>>    \* a 32-byte key no record uses

MasterKeys == {ZeroKey, ReadmeKey}
BadKeys    == {ShortKey, LongKey}
AllKeys    == MasterKeys \cup BadKeys
\* the buffers a caller may present as master key to unwrapDEK
UnwrapKeys == AllKeys \cup {OtherDek}

PartyIds == {"user_123", "party_B"}
Payloads == {JNum1, JObjA, JNaN}
\* the (partyId, payload) pairs the callers of the model pass
Requests == PartyIds \X Payloads
Times    == {"2026-01-01T00:00:00.000Z"}
Seeds    == {0}

HexFields == {"payload_nonce", "payload_ct", "payload_tag",
              "dek_wrap_nonce", "dek_wrapped", "dek_wrap_tag"}
WrapFields    == {"dek_wrap_nonce", "dek_wrapped", "dek_wrap_tag"}
PayloadFields == {"payload_nonce", "payload_ct", "payload_tag"}

(***************************************************************************)
(* What a holder of a stored record can do to its hex fields               *)
(***************************************************************************)
ByteDeltas == {1, 255}

UpperChar(c) == IF IsHexChar(c) THEN HexUpper[HexValue(c) + 1] ELSE c

\* the field value s after one change
Mutate(t, s) ==
    CASE t.kind = "byte" ->
            LET new == ToHex(<<(FromHex(SubSeq(s, 2 * t.pos - 1, 2 * t.pos))[1] + t.arg) % 256>>)
            IN  [k \in 1..Len(s) |->
                    IF k = 2 * t.pos - 1 THEN new[1]
                    ELSE IF k = 2 * t.pos THEN new[2] ELSE s[k]] \o <<>>
      [] t.kind = "upper"    -> [k \in 1..Len(s) |-> UpperChar(s[k])] \o <<>>
      [] t.kind = "append"   -> s \o [k \in 1..t.arg |-> "f"]
      [] t.kind = "truncate" -> SubSeq(s, 1, Len(s) - t.arg)
      [] t.kind = "empty"    -> <<>>
      [] t.kind = "char"     -> [s EXCEPT ![t.pos] = "G"]
      [] t.kind = "fill"     -> [k \in 1..Len(s) |-> "G"] \o <<>>

RECURSIVE Tampered(_, _)
Tampered(rec, ts) ==
    IF ts = <<>> THEN rec
    ELSE LET t == Head(ts)
         IN  Tampered([rec EXCEPT ![t.field] = Mutate(t, rec[t.field])], Tail(ts))

T(f, k, p, a) == [field |-> f, kind |-> k, pos |-> p, arg |-> a]

\* changes of the value of one byte
ByteChanges(rec, f) ==
    {T(f, "byte", p, d) : p \in 1..(Len(rec[f]) \div 2), d \in ByteDeltas}

\* changes that leave the decoded bytes alone or make the field malformed
FormChanges(rec, f) ==
    {T(f, "upper", 0, 0), T(f, "append", 0, 2), T(f, "append", 0, 1),
     T(f, "truncate", 0, 2), T(f, "truncate", 0, 1), T(f, "empty", 0, 0),
     T(f, "char", 1, 0), T(f, "char", Len(rec[f]), 0), T(f, "fill", 0, 0)}

\* a second change, to another field
Companions(f) == {T(f, "byte", 1, 1), T(f, "append", 0, 2), T(f, "char", 1, 0)}

Tampers(rec, fields) ==
    {<<>>}
    \cup {<<t>> : t \in UNION {ByteChanges(rec, f) \cup FormChanges(rec, f) : f \in fields}}
    \cup {p \in (UNION {FormChanges(rec, f) : f \in fields})
                  \X (UNION {Companions(g) : g \in fields}) : p[1].field # p[2].field}

(***************************************************************************)
(* State                                                                   *)
(***************************************************************************)
VARIABLES
    rng,      \* number of values drawn from the random source so far
    issued,   \* records returned by encryptEnvelope, each with the payload
              \* and master key of the call and the DEK it encrypted under
    wraps,    \* results of direct wrapDEK calls, with their DEK and key
    encLog,   \* (key, nonce) of every authenticated encryption, in order
    last,     \* the last call: operation, inputs and outcome
    server,   \* which of the repository's HTTP servers is running
    env,      \* process.env.MASTER_KEY (the empty string when it is not set)
    serverKey,\* the server module's masterKey variable
    phase,    \* "off", "boot" (module not loaded yet), "up" or "exited"
    store,    \* the in-memory Map of records, as its entries in insertion order
    http      \* the exchange being answered: request, response, log lines

apiVars == <<server, env, serverKey, phase, store, http>>

vars == <<rng, issued, wraps, encLog, last, server, env, serverKey, phase, store, http>>

NoKey == [set |-> FALSE, buf |-> <<>>]
NoExchange == [route |-> "none"]

\* No server process: the engine is called directly.
Offline ==
    /\ server = "none"
    /\ env = <<>>
    /\ serverKey = NoKey
    /\ phase = "off"
    /\ store = <<>>
    /\ http = NoExchange

NoRec == [id |-> <<>>]
NoArg == [partyId |-> "", payload |-> JNull, createdAt |-> ""]
NoOut == Return(NoVal, <<>>, 0, <<>>)

\* key is the key buffer passed to the operation; via says where a DEK came
\* from, and mk is the master key it was unwrapped with
Call(op, src, ts, rec, key, via, mk, arg, out) ==
    [op |-> op, src |-> src, tamper |-> ts, rec |-> rec, key |-> key,
     via |-> via, mk |-> mk, arg |-> arg, out |-> out]

Idle == Call("none", 0, <<>>, NoRec, <<>>, "", <<>>, NoArg, NoOut)

Init ==
    /\ rng \in Seeds
    /\ issued = <<>>
    /\ wraps = <<>>
    /\ encLog = <<>>
    /\ last = Idle
    /\ Offline

(***************************************************************************)
(* Calls of the engine.  A caller makes one call at a time: it calls when  *)
(* last is Idle and takes the outcome (ReturnToCaller) before it calls     *)
(* again.                                                                  *)
(***************************************************************************)
\* one call encryptEnvelope(partyId, payload, masterKey) and its effects
EncryptEnvelopeWith(req, masterKey, createdAt) ==
    \E out \in {encryptEnvelope(req[1], req[2], masterKey, createdAt, rng)} :
        /\ rng' = rng + out.draws
        /\ encLog' = encLog \o out.enc
        /\ issued' = IF out.ok
                     THEN Append(issued, [rec |-> out.val, dek |-> out.enc[1].key,
                                          mk |-> masterKey, payload |-> req[2]])
                     ELSE issued
        /\ last' = Call("encryptEnvelope", 0, <<>>, NoRec, masterKey, "", <<>>,
                        [partyId |-> req[1], payload |-> req[2],
                         createdAt |-> createdAt], out)
        /\ UNCHANGED <<wraps, apiVars>>

EncryptEnvelopeCall ==
    /\ last = Idle
    /\ Len(issued) < MaxRecords
    /\ \E req \in Requests, masterKey \in AllKeys, createdAt \in Times :
        EncryptEnvelopeWith(req, masterKey, createdAt)

\* a DEK buffer a caller may hand to wrapDEK
DekInputs == {OtherDek, ShortKey}

WrapDEKCall ==
    /\ last = Idle
    /\ Len(wraps) < MaxWraps
    /\ \E dek \in DekInputs, masterKey \in AllKeys :
        \E out \in {wrapDEK(dek, masterKey, rng)} :
            /\ rng' = rng + out.draws
            /\ encLog' = encLog \o out.enc
            /\ wraps' = IF out.ok
                        THEN Append(wraps, [rec |-> out.val, dek |-> dek, mk |-> masterKey])
                        ELSE wraps
            /\ last' = Call("wrapDEK", 0, <<>>, NoRec, masterKey, "", <<>>,
                            [NoArg EXCEPT !.payload = dek], out)
            /\ UNCHANGED <<issued, apiVars>>

\* unwrapDEK(record, masterKey) on an issued record after the changes ts
UnwrapDEKOn(k, ts, masterKey) ==
    \E rec \in {Tampered(issued[k].rec, ts)} :
        /\ last' = Call("unwrapDEK", k, ts, rec, masterKey, "", <<>>, NoArg,
                        unwrapDEK(rec, masterKey))
        /\ UNCHANGED <<rng, issued, wraps, encLog, apiVars>>

\* decryptPayload(record, dek) on an issued record after the changes ts,
\* with a DEK buffer of the caller's
DecryptPayloadOn(k, ts, dek) ==
    \E rec \in {Tampered(issued[k].rec, ts)} :
        /\ last' = Call("decryptPayload", k, ts, rec, dek, "buffer", <<>>, NoArg,
                        decryptPayload(rec, dek))
        /\ UNCHANGED <<rng, issued, wraps, encLog, apiVars>>

\* decryptPayload(record, unwrapDEK(record, masterKey)), as the callers do
DecryptUnwrappedOn(k, ts, masterKey) ==
    \E rec \in {Tampered(issued[k].rec, ts)} :
        \E dek \in {unwrapDEK(rec, masterKey)} :
            /\ dek.ok
            /\ last' = Call("decryptPayload", k, ts, rec, dek.val, "unwrapDEK", masterKey, NoArg,
                            decryptPayload(rec, dek.val))
            /\ UNCHANGED <<rng, issued, wraps, encLog, apiVars>>

DekBuffers == {OtherDek, ShortKey, LongKey}

UnwrapDEKCall ==
    /\ last = Idle
    /\ \E k \in 1..Len(issued), masterKey \in UnwrapKeys : UnwrapDEKOn(k, <<>>, masterKey)

DecryptPayloadCall ==
    /\ last = Idle
    /\ \E k \in 1..Len(issued) :
        \/ \E dek \in DekBuffers \cup {issued[j].dek : j \in 1..Len(issued)} :
              DecryptPayloadOn(k, <<>>, dek)
        \/ \E masterKey \in MasterKeys : DecryptUnwrappedOn(k, <<>>, masterKey)

ReturnToCaller ==
    /\ last # Idle
    /\ last' = Idle
    /\ UNCHANGED <<rng, issued, wraps, encLog, apiVars>>

Next ==
    \/ EncryptEnvelopeCall
    \/ UnwrapDEKCall
    \/ DecryptPayloadCall
    \/ ReturnToCaller

Spec == Init /\ [][Next]_vars

(***************************************************************************)
(* The single operations on arbitrary arguments: a caller either wraps     *)
(* DEK buffers directly, or creates one record, whose hex fields are then  *)
(* changed before it is unwrapped and decrypted.                           *)
(***************************************************************************)
TamperedUnwrapCall ==
    /\ last = Idle
    /\ \E k \in 1..Len(issued), masterKey \in UnwrapKeys :
        \E ts \in Tampers(issued[k].rec, WrapFields) : UnwrapDEKOn(k, ts, masterKey)

TamperedDecryptCall ==
    /\ last = Idle
    /\ \E k \in 1..Len(issued) :
        \E ts \in Tampers(issued[k].rec, PayloadFields) :
            \/ \E dek \in DekBuffers \cup {issued[k].dek} : DecryptPayloadOn(k, ts, dek)
            \/ \E masterKey \in MasterKeys : DecryptUnwrappedOn(k, ts, masterKey)

\* unwrapDEK on the fields a direct wrapDEK call returned
UnwrapWrappedCall ==
    /\ last = Idle
    /\ \E k \in 1..Len(wraps), masterKey \in UnwrapKeys :
        /\ last' = Call("unwrapWrapped", k, <<>>, wraps[k].rec, masterKey, "wrapDEK",
                        wraps[k].mk, [NoArg EXCEPT !.payload = wraps[k].dek],
                        unwrapDEK(wraps[k].rec, masterKey))
        /\ UNCHANGED <<rng, issued, wraps, encLog, apiVars>>

FirstRecord == issued = <<>> /\ wraps = <<>> /\ EncryptEnvelopeCall

DirectWrap == issued = <<>> /\ WrapDEKCall

\* byte strings JSON.parse rejects: { and nul
NotJsonTexts == {<<123>>, <<110, 117, 108>>}

\* the record with bytes encrypted and authenticated under dek in place of
\* the payload, as a holder of the DEK can make it
Forged(rec, dek, bytes) ==
    LET nonce == FromHex(rec.payload_nonce)
        ct    == CtrEncrypt(dek, nonce, bytes)
    IN  [rec EXCEPT !.payload_ct = ToHex(ct),
                    !.payload_tag = ToHex(AuthTag(dek, nonce, ct))]

\* decryptPayload on a record whose tag verifies and whose plaintext is not JSON
ForgedDecryptCall ==
    /\ last = Idle
    /\ \E k \in 1..Len(issued), bytes \in NotJsonTexts :
        \E rec \in {Forged(issued[k].rec, issued[k].dek, bytes)} :
            /\ last' = Call("decryptForged", k, <<>>, rec, issued[k].dek, "buffer", <<>>,
                            NoArg, decryptPayload(rec, issued[k].dek))
            /\ UNCHANGED <<rng, issued, wraps, encLog, apiVars>>

\* the fields of a record that no cryptographic computation reads
MetaFields == {"id", "partyId", "createdAt", "alg", "mk_version"}

\* the record with other values in the metadata fields named
Restamped(rec, fields) ==
    [f \in DOMAIN rec |->
        IF f \notin fields THEN rec[f]
        ELSE IF f = "id" THEN RandomUUID(255)
        ELSE IF f = "partyId" THEN "somebody_else"
        ELSE IF f = "createdAt" THEN "1970-01-01T00:00:00.000Z"
        ELSE IF f = "alg" THEN "none"
        ELSE 2]

\* the changes of a record the metadata is varied on
RestampTampers ==
    {<<>>, <<T("payload_tag", "byte", 1, 1)>>, <<T("dek_wrap_tag", "byte", 1, 1)>>,
     <<T("payload_nonce", "truncate", 0, 2)>>, <<T("dek_wrapped", "char", 1, 0)>>}

\* unwrapDEK then decryptPayload on a record with other metadata
RestampedRecoverCall ==
    /\ last = Idle
    /\ \E k \in 1..Len(issued), masterKey \in MasterKeys, ts \in RestampTampers,
          fields \in {{f} : f \in MetaFields} \cup {MetaFields} :
        \E rec \in {Restamped(Tampered(issued[k].rec, ts), fields)} :
            \E dek \in {unwrapDEK(rec, masterKey)} :
                /\ last' = Call("recoverRestamped", k, ts, rec, masterKey, "unwrapDEK",
                                masterKey, NoArg,
                                IF dek.ok THEN decryptPayload(rec, dek.val) ELSE dek)
                /\ UNCHANGED <<rng, issued, wraps, encLog, apiVars>>

NextTamper ==
    \/ FirstRecord
    \/ DirectWrap
    \/ UnwrapWrappedCall
    \/ TamperedUnwrapCall
    \/ TamperedDecryptCall
    \/ ForgedDecryptCall
    \/ RestampedRecoverCall
    \/ ReturnToCaller

SpecTamper == Init /\ [][NextTamper]_vars

(***************************************************************************)
(* The same request repeated: every call of encryptEnvelope after the      *)
(* first has the arguments of the first.  The random source starts in one  *)
(* of several states.                                                      *)
(***************************************************************************)
RepeatSeeds == {0, 43}

InitRepeat ==
    /\ rng \in RepeatSeeds
    /\ issued = <<>>
    /\ wraps = <<>>
    /\ encLog = <<>>
    /\ last = Idle
    /\ Offline

RepeatEnvelopeCall ==
    /\ last = Idle
    /\ Len(issued) < MaxRepeats
    /\ \E req \in Requests, masterKey \in MasterKeys, createdAt \in Times :
        /\ issued # <<>> =>
              /\ req = <<issued[1].rec.partyId, issued[1].payload>>
              /\ masterKey = issued[1].mk
        /\ EncryptEnvelopeWith(req, masterKey, createdAt)

NextRepeat ==
    \/ RepeatEnvelopeCall
    \/ UnwrapDEKCall
    \/ DecryptPayloadCall
    \/ ReturnToCaller

SpecRepeat == InitRepeat /\ [][NextRepeat]_vars

(***************************************************************************)
(* The HTTP layer.  Three servers are in the sources: unnamed/part_000,    *)
(* apps/api/src/server.ts and the one inlined in apps/web/src/app/page.tsx *)
(* with its own copy of the engine.  A handler is an operator from the     *)
(* request and the state it reads to the response, the lines it logs, the  *)
(* engine calls it makes and the state it leaves.                          *)
(***************************************************************************)
\* the Map of storage.ts, as its entries in insertion order
StoreHas(m, id) == \E k \in 1..Len(m) : m[k].key = id

\* store.get that answers with the oldest record
StoreGetOldest(m, id) == m[1].value

StoreGet(m, id) == m[CHOOSE k \in 1..Len(m) : m[k].key = id].value

\* store.set written as a copy of the Map taken before the handler ran
StoreSetLosing(m, id, record) == <<[key |-> id, value |-> record]>>

\* store.set that keeps a changed copy of the record
StoreSetChanged(m, id, record) ==
    Append(m, [key |-> id, value |-> [record EXCEPT !.mk_version = 2]])

StoreSet(m, id, record) ==
    IF StoreHas(m, id)
    THEN [k \in 1..Len(m) |->
             IF m[k].key = id THEN [key |-> id, value |-> record] ELSE m[k]] \o <<>>
    ELSE Append(m, [key |-> id, value |-> record])

\* an Error with the message s
ErrText(s) == [msg |-> s, field |-> "", expected |-> 0, got2 |-> 0, code |-> ""]

\* response bodies: a record, { error, message? } or { payload }
SendRecord(record) ==
    [kind |-> "record", record |-> record, error |-> NoErr, message |-> NoErr,
     payload |-> JUndefined]

SendError(e, m) ==
    [kind |-> "error", record |-> NoRec, error |-> e, message |-> m,
     payload |-> JUndefined]

SendPayload(payload) ==
    [kind |-> "payload", record |-> NoRec, error |-> NoErr, message |-> NoErr,
     payload |-> payload]

\* one line of fastify.log: the level, the text and the merged object
LogLine(level, text, partyId, txId, e) ==
    [level |-> level, text |-> text, partyId |-> partyId, txId |-> txId, error |-> e]

\* the module variable masterKey: undefined, or a Buffer
Key(buf) == [set |-> TRUE, buf |-> buf]

\* what a handler did: the response, the log lines, the engine calls with
\* the key passed, masterKey and the store after it, the random draws made
\* and the records created with their DEK
Handled(status, body, log, calls, key, m, n, made) ==
    [status |-> status, body |-> body, log |-> log, calls |-> calls,
     key |-> key, store |-> m, draws |-> n, made |-> made]

EngineCall(fn, buf) == [fn |-> fn, key |-> buf]

\* String.prototype.trim on the partyId strings of the model
Trim(v) == IF v \in {" ", "  "} THEN "" ELSE v

\* !x for the values of the model
IsFalsy(x) ==
    \/ x.t \in {"undefined", "null"}
    \/ x.t = "string" /\ x.v = ""
    \/ x.t = "number" /\ x.v \in {"0", "NaN"}

(***************************************************************************)
(* unnamed/part_000                                                        *)
(***************************************************************************)
\* e is process.env.MASTER_KEY, the empty string when it is not set
validateAndGetMasterKey(e) ==
    IF e = <<>>
    THEN Throw(ErrText("MASTER_KEY environment variable is not set"), <<>>, 0, <<>>)
    ELSE IF Len(e) # 64
    THEN Throw(ErrText("MASTER_KEY must be a 64-character hex string (32 bytes)"),
               <<>>, 0, <<>>)
    ELSE IF ~(Len(e) = 64 /\ \A i \in 1..Len(e) : IsHexChar(e[i]))
    THEN Throw(ErrText("MASTER_KEY must contain only hexadecimal characters"),
               <<>>, 0, <<>>)
    ELSE Return(FromHex(e), <<>>, 0, <<>>)

\* the module body: masterKey after it, and the lines logged
part000_startup(e) ==
    IF e # <<>>
    THEN LET loaded == validateAndGetMasterKey(e)
         IN  IF loaded.ok
             THEN [key |-> Key(loaded.val),
                   log |-> <<LogLine("info", "Master key validated successfully",
                                     JUndefined, <<>>, NoErr)>>]
             ELSE [key |-> NoKey,
                   log |-> <<LogLine("error", "Master key validation failed",
                                     JUndefined, <<>>, loaded.err)>>]
    ELSE [key |-> NoKey,
          log |-> <<LogLine("warn",
                            "MASTER_KEY not set at startup - Crypto operations will fail",
                            JUndefined, <<>>, NoErr)>>]

\* a handler that reads MASTER_KEY again on every request
part000_loadKeyAlways(key, e) ==
    IF e # <<>> THEN validateAndGetMasterKey(e)
    ELSE Throw(ErrText("Configuration Error: MASTER_KEY is missing on server"),
               <<>>, 0, <<>>)

\* a handler that goes on with a default key when MASTER_KEY is not usable
part000_loadKeyDefault(key, e) ==
    IF key.set THEN Return(key.buf, <<>>, 0, <<>>)
    ELSE IF e # <<>> /\ validateAndGetMasterKey(e).ok THEN validateAndGetMasterKey(e)
    ELSE Return(ZeroKey, <<>>, 0, <<>>)

\* if (!masterKey) { ... }: the key the handler goes on with, or the error
part000_loadKey(key, e) ==
    IF key.set THEN Return(key.buf, <<>>, 0, <<>>)
    ELSE IF e # <<>> THEN validateAndGetMasterKey(e)
    ELSE Throw(ErrText("Configuration Error: MASTER_KEY is missing on server"),
               <<>>, 0, <<>>)

\* POST /tx/encrypt
part000_postEncrypt(body, key, e, m, createdAt, c) ==
    IF ~body.present
    THEN Handled(400, SendError(ErrText("Request body must be a valid JSON object"), NoErr),
                 <<>>, <<>>, key, m, 0, <<>>)
    ELSE IF body.partyId \in {JUndefined, JNull}
    THEN Handled(400, SendError(ErrText("partyId is required"), NoErr),
                 <<>>, <<>>, key, m, 0, <<>>)
    ELSE IF body.partyId.t # "string"
    THEN Handled(400, SendError(ErrText("partyId must be a string"), NoErr),
                 <<>>, <<>>, key, m, 0, <<>>)
    ELSE IF Trim(body.partyId.v) = ""
    THEN Handled(400, SendError(ErrText("partyId cannot be empty"), NoErr),
                 <<>>, <<>>, key, m, 0, <<>>)
    ELSE IF body.payload = JUndefined
    THEN Handled(400, SendError(ErrText("payload is required"), NoErr),
                 <<>>, <<>>, key, m, 0, <<>>)
    ELSE
    LET received == LogLine("info", "Encrypt request received", body.partyId, <<>>, NoErr)
        loaded   == part000_loadKey(key, e)
    IN
    IF ~loaded.ok
    THEN Handled(400, SendError(ErrText("Encryption failed"), NoErr),
                 <<received, LogLine("error", "Encryption operation failed",
                                     body.partyId, <<>>, loaded.err)>>,
                 <<>>, key, m, 0, <<>>)
    ELSE
    LET record == encryptEnvelope(body.partyId, body.payload, loaded.val, createdAt, c)
        called == <<EngineCall("encryptEnvelope", loaded.val)>>
    IN
    IF ~record.ok
    THEN Handled(400, SendError(ErrText("Encryption failed"), NoErr),
                 <<received, LogLine("error", "Encryption operation failed",
                                     body.partyId, <<>>, record.err)>>,
                 called, Key(loaded.val), m, record.draws, <<>>)
    ELSE Handled(200, SendRecord(record.val),
                 <<received, LogLine("info", "Transaction encrypted and stored",
                                     body.partyId, record.val.id, NoErr)>>,
                 called, Key(loaded.val), StoreSet(m, record.val.id, record.val),
                 record.draws,
                 <<[rec |-> record.val, dek |-> record.enc[1].key, mk |-> loaded.val,
                    payload |-> body.payload]>>)

\* GET /tx/:id
part000_getTx(id, key, m) ==
    IF ~StoreHas(m, id)
    THEN Handled(404, SendError(ErrText("Transaction not found"), NoErr),
                 <<LogLine("warn", "Transaction not found", JUndefined, id, NoErr)>>,
                 <<>>, key, m, 0, <<>>)
    ELSE Handled(200, SendRecord(StoreGet(m, id)),
                 <<LogLine("info", "Transaction retrieved", JUndefined, id, NoErr)>>,
                 <<>>, key, m, 0, <<>>)

\* POST /tx/:id/decrypt
part000_postDecrypt(id, key, e, m) ==
    LET received == LogLine("info", "Decrypt request received", JUndefined, id, NoErr)
        failing  == "Decryption failed - possible tampering or data corruption"
    IN
    IF ~StoreHas(m, id)
    THEN Handled(404, SendError(ErrText("Transaction not found"), NoErr),
                 <<received, LogLine("warn", "Transaction not found for decryption",
                                     JUndefined, id, NoErr)>>,
                 <<>>, key, m, 0, <<>>)
    ELSE
    LET record == StoreGet(m, id)
        loaded == part000_loadKey(key, e)
    IN
    IF ~loaded.ok
    THEN Handled(400, SendError(ErrText("Decryption failed"), NoErr),
                 <<received, LogLine("warn", failing, JUndefined, id, loaded.err)>>,
                 <<>>, key, m, 0, <<>>)
    ELSE
    LET dek      == unwrapDEK(record, loaded.val)
        unwrapped == <<EngineCall("unwrapDEK", loaded.val)>>
    IN
    IF ~dek.ok
    THEN Handled(400, SendError(ErrText("Decryption failed"), NoErr),
                 <<received, LogLine("warn", failing, JUndefined, id, dek.err)>>,
                 unwrapped, Key(loaded.val), m, 0, <<>>)
    ELSE
    LET payload == decryptPayload(record, dek.val)
    IN
    IF ~payload.ok
    THEN Handled(400, SendError(ErrText("Decryption failed"), NoErr),
                 <<received, LogLine("warn", failing, JUndefined, id, payload.err)>>,
                 unwrapped, Key(loaded.val), m, 0, <<>>)
    ELSE Handled(200, SendPayload(payload.val),
                 <<received, LogLine("info", "Transaction decrypted successfully",
                                     JUndefined, id, NoErr)>>,
                 unwrapped, Key(loaded.val), m, 0, <<>>)

(***************************************************************************)
(* apps/api/src/server.ts                                                  *)
(***************************************************************************)
\* the TypeError of destructuring request.body when there is no body
DestructureError ==
    [msg |-> "Cannot destructure property 'partyId' of 'request.body' as it is undefined.",
     field |-> "", expected |-> 0, got2 |-> 0, code |-> ""]

\* the module body: process.exit(1) unless MASTER_KEY has 64 characters
serverTs_startup(e) ==
    IF e = <<>>
    THEN [up |-> FALSE, key |-> NoKey,
          log |-> <<LogLine("error", "CRITICAL: MASTER_KEY environment variable is not set",
                            JUndefined, <<>>, NoErr)>>]
    ELSE IF Len(e) # 64
    THEN [up |-> FALSE, key |-> NoKey,
          log |-> <<LogLine("error",
                            "CRITICAL: MASTER_KEY must be a 64-character hex string (32 bytes)",
                            JUndefined, <<>>, NoErr)>>]
    ELSE [up |-> TRUE, key |-> Key(FromHex(e)), log |-> <<>>]

\* POST /tx/encrypt; an error thrown outside the try block is answered by
\* the framework with status 500
serverTs_postEncrypt(body, key, m, createdAt, c) ==
    IF ~body.present
    THEN Handled(500, SendError(ErrText("Internal Server Error"), DestructureError),
                 <<LogLine("error", "", JUndefined, <<>>, DestructureError)>>,
                 <<>>, key, m, 0, <<>>)
    ELSE IF IsFalsy(body.partyId) \/ IsFalsy(body.payload)
    THEN Handled(400, SendError(ErrText("partyId and payload are required"), NoErr),
                 <<>>, <<>>, key, m, 0, <<>>)
    ELSE
    LET record == encryptEnvelope(body.partyId, body.payload, key.buf, createdAt, c)
        called == <<EngineCall("encryptEnvelope", key.buf)>>
    IN
    IF ~record.ok
    THEN Handled(400, SendError(ErrText("Encryption failed"), record.err),
                 <<LogLine("error", "Encryption failed", JUndefined, <<>>, record.err)>>,
                 called, key, m, record.draws, <<>>)
    ELSE Handled(200, SendRecord(record.val),
                 <<LogLine("info", "Transaction encrypted and stored",
                           body.partyId, record.val.id, NoErr)>>,
                 called, key, StoreSet(m, record.val.id, record.val), record.draws,
                 <<[rec |-> record.val, dek |-> record.enc[1].key, mk |-> key.buf,
                    payload |-> body.payload]>>)

\* GET /tx/:id
serverTs_getTx(id, key, m) ==
    IF ~StoreHas(m, id)
    THEN Handled(404, SendError(ErrText("Transaction not found"), NoErr),
                 <<>>, <<>>, key, m, 0, <<>>)
    ELSE Handled(200, SendRecord(StoreGet(m, id)), <<>>, <<>>, key, m, 0, <<>>)

\* POST /tx/:id/decrypt
serverTs_postDecrypt(id, key, m) ==
    IF ~StoreHas(m, id)
    THEN Handled(404, SendError(ErrText("Transaction not found"), NoErr),
                 <<>>, <<>>, key, m, 0, <<>>)
    ELSE
    LET record    == StoreGet(m, id)
        dek       == unwrapDEK(record, key.buf)
        unwrapped == <<EngineCall("unwrapDEK", key.buf)>>
    IN
    IF ~dek.ok
    THEN Handled(400, SendError(ErrText("Decryption failed"), dek.err),
                 <<LogLine("error", "Decryption failed", JUndefined, <<>>, dek.err)>>,
                 unwrapped, key, m, 0, <<>>)
    ELSE
    LET payload == decryptPayload(record, dek.val)
    IN
    IF ~payload.ok
    THEN Handled(400, SendError(ErrText("Decryption failed"), payload.err),
                 <<LogLine("error", "Decryption failed", JUndefined, <<>>, payload.err)>>,
                 unwrapped, key, m, 0, <<>>)
    ELSE Handled(200, SendPayload(payload.val),
                 <<LogLine("info", "Transaction decrypted successfully",
                           JUndefined, id, NoErr)>>,
                 unwrapped, key, m, 0, <<>>)

(***************************************************************************)
(* apps/web/src/app/page.tsx: the inlined engine and its routes.           *)
(* generateDEK and encryptPayload are the same text as in encryption.ts.   *)
(***************************************************************************)
inlined_validateHex(hex, expectedByteLength, fieldName) ==
    IF ~HexRegexTest(hex) THEN HexError(fieldName)
    ELSE IF Len(hex) # expectedByteLength * 2
         THEN [ErrText("Invalid length for") EXCEPT !.field = fieldName]
         ELSE NoErr

\* no check of the master key: createCipheriv throws for a wrong size
inlined_wrapDEK(dek, masterKey, c) ==
    LET nonce == RandomBytes(NONCE_LENGTH, c)
    IN  IF ~CipherKeyOk(masterKey)
        THEN Throw(NativeKeyError, <<"randomBytes", "createCipheriv">>, 1, <<>>)
        ELSE LET wrapped == CtrEncrypt(masterKey, nonce, dek)
                 tag     == AuthTag(masterKey, nonce, wrapped)
             IN  Return([dek_wrap_nonce |-> ToHex(nonce),
                         dek_wrapped    |-> ToHex(wrapped),
                         dek_wrap_tag   |-> ToHex(tag)],
                        <<"randomBytes", "createCipheriv", "update", "final", "getAuthTag">>,
                        1, <<[key |-> masterKey, nonce |-> nonce]>>)

inlined_unwrapDEK(record, masterKey) ==
    LET e1 == inlined_validateHex(record.dek_wrap_nonce, NONCE_LENGTH, "dek_wrap_nonce")
        e2 == inlined_validateHex(record.dek_wrap_tag, TAG_LENGTH, "dek_wrap_tag")
    IN
    IF e1 # NoErr THEN Throw(e1, <<"validateHex">>, 0, <<>>)
    ELSE IF e2 # NoErr THEN Throw(e2, <<"validateHex", "validateHex">>, 0, <<>>)
    ELSE IF ~CipherKeyOk(masterKey)
    THEN Throw(NativeKeyError, <<"validateHex", "validateHex", "createDecipheriv">>, 0, <<>>)
    ELSE
    LET nonce        == FromHex(record.dek_wrap_nonce)
        tag          == FromHex(record.dek_wrap_tag)
        encryptedDEK == FromHex(record.dek_wrapped)
        called       == <<"validateHex", "validateHex", "createDecipheriv", "setAuthTag",
                          "update", "final">>
    IN  IF tag = AuthTag(masterKey, nonce, encryptedDEK)
        THEN Return(CtrDecrypt(masterKey, nonce, encryptedDEK), called, 0, <<>>)
        ELSE Throw(NativeAuthError, called, 0, <<>>)

inlined_decryptPayload(record, dek) ==
    LET e1 == inlined_validateHex(record.payload_nonce, NONCE_LENGTH, "payload_nonce")
        e2 == inlined_validateHex(record.payload_tag, TAG_LENGTH, "payload_tag")
    IN
    IF e1 # NoErr THEN Throw(e1, <<"validateHex">>, 0, <<>>)
    ELSE IF e2 # NoErr THEN Throw(e2, <<"validateHex", "validateHex">>, 0, <<>>)
    ELSE IF ~CipherKeyOk(dek)
    THEN Throw(NativeKeyError, <<"validateHex", "validateHex", "createDecipheriv">>, 0, <<>>)
    ELSE
    LET nonce      == FromHex(record.payload_nonce)
        tag        == FromHex(record.payload_tag)
        ciphertext == FromHex(record.payload_ct)
        called     == <<"validateHex", "validateHex", "createDecipheriv", "setAuthTag",
                        "update", "final">>
    IN
    IF tag # AuthTag(dek, nonce, ciphertext) THEN Throw(NativeAuthError, called, 0, <<>>)
    ELSE
    LET decrypted == CtrDecrypt(dek, nonce, ciphertext)
    IN  IF IsJsonText(decrypted)
        THEN Return(JsonParse(decrypted), called \o <<"JSON.parse">>, 0, <<>>)
        ELSE Throw(ErrText("Unexpected token in JSON"), called \o <<"JSON.parse">>, 0, <<>>)

inlined_encryptEnvelope(partyId, payload, masterKey, createdAt, c) ==
    LET id                == RandomUUID(c)
        dek               == generateDEK(c + 1)
        payloadEncryption == encryptPayload(payload, dek, c + 2)
        dekWrapping       == inlined_wrapDEK(dek, masterKey, c + 3)
        before            == <<"randomUUID", "Date", "generateDEK">>
    IN
    IF ~payloadEncryption.ok
    THEN Throw(payloadEncryption.err, before \o payloadEncryption.ev,
               2 + payloadEncryption.draws, <<>>)
    ELSE IF ~dekWrapping.ok
    THEN Throw(dekWrapping.err, before \o payloadEncryption.ev \o dekWrapping.ev,
               2 + payloadEncryption.draws + dekWrapping.draws, payloadEncryption.enc)
    ELSE Return([id             |-> id,
                 partyId        |-> partyId,
                 createdAt      |-> createdAt,
                 payload_nonce  |-> payloadEncryption.val.payload_nonce,
                 payload_ct     |-> payloadEncryption.val.payload_ct,
                 payload_tag    |-> payloadEncryption.val.payload_tag,
                 dek_wrap_nonce |-> dekWrapping.val.dek_wrap_nonce,
                 dek_wrapped    |-> dekWrapping.val.dek_wrapped,
                 dek_wrap_tag   |-> dekWrapping.val.dek_wrap_tag,
                 alg            |-> "AES-256-GCM",
                 mk_version     |-> 1],
                before \o payloadEncryption.ev \o dekWrapping.ev,
                2 + payloadEncryption.draws + dekWrapping.draws,
                payloadEncryption.enc \o dekWrapping.enc)

getMasterKey(e) ==
    IF e = <<>> \/ Len(e) # 64
    THEN Throw(ErrText("Invalid MASTER_KEY"), <<>>, 0, <<>>)
    ELSE Return(FromHex(e), <<>>, 0, <<>>)

\* POST /tx/encrypt: the whole handler is in one try block
pageTsx_postEncrypt(body, e, m, createdAt, c) ==
    IF ~body.present
    THEN Handled(400, SendError(DestructureError, NoErr), <<>>, <<>>, NoKey, m, 0, <<>>)
    ELSE
    LET mk == getMasterKey(e)
    IN
    IF ~mk.ok
    THEN Handled(400, SendError(mk.err, NoErr), <<>>, <<>>, NoKey, m, 0, <<>>)
    ELSE
    LET record == inlined_encryptEnvelope(body.partyId, body.payload, mk.val, createdAt, c)
        called == <<EngineCall("encryptEnvelope", mk.val)>>
    IN
    IF ~record.ok
    THEN Handled(400, SendError(record.err, NoErr), <<>>, called, NoKey, m,
                 record.draws, <<>>)
    ELSE Handled(200, SendRecord(record.val), <<>>, called, NoKey,
                 StoreSet(m, record.val.id, record.val), record.draws,
                 <<[rec |-> record.val, dek |-> record.enc[1].key, mk |-> mk.val,
                    payload |-> body.payload]>>)

\* GET /tx/:id
pageTsx_getTx(id, m) ==
    IF ~StoreHas(m, id)
    THEN Handled(404, SendError(ErrText("Not found"), NoErr), <<>>, <<>>, NoKey, m, 0, <<>>)
    ELSE Handled(200, SendRecord(StoreGet(m, id)), <<>>, <<>>, NoKey, m, 0, <<>>)

\* POST /tx/:id/decrypt
pageTsx_postDecrypt(id, e, m) ==
    IF ~StoreHas(m, id)
    THEN Handled(404, SendError(ErrText("Not found"), NoErr), <<>>, <<>>, NoKey, m, 0, <<>>)
    ELSE
    LET record == StoreGet(m, id)
        mk     == getMasterKey(e)
        failed == Handled(400, SendError(ErrText("Decryption failed"), NoErr),
                          <<>>, <<>>, NoKey, m, 0, <<>>)
    IN
    IF ~mk.ok THEN failed
    ELSE
    LET dek       == inlined_unwrapDEK(record, mk.val)
        unwrapped == <<EngineCall("unwrapDEK", mk.val)>>
    IN
    IF ~dek.ok THEN [failed EXCEPT !.calls = unwrapped]
    ELSE
    LET payload == inlined_decryptPayload(record, dek.val)
    IN  IF ~payload.ok THEN [failed EXCEPT !.calls = unwrapped]
        ELSE Handled(200, SendPayload(payload.val), <<>>, unwrapped, NoKey, m, 0, <<>>)

(***************************************************************************)
(* The servers as state machines: the module body runs once, then requests *)
(* are answered one at a time.                                             *)
(***************************************************************************)
Servers == {"part_000", "server.ts", "page.tsx"}

\* MASTER_KEY with one character that is not a hex digit: 64 characters
NonHexEnv == [i \in 1..64 |-> IF i = 3 THEN "z" ELSE ToHex(ReadmeKey)[i]] \o <<>>

\* the values of MASTER_KEY: not set, a key, 32 characters, not hex
EnvValues == {<<>>, ToHex(ReadmeKey), ToHex(ShortKey), NonHexEnv}

JStr(s) == [t |-> "string", v |-> s]

NoBody == [present |-> FALSE, partyId |-> JUndefined, payload |-> JUndefined]
Body(partyId, payload) == [present |-> TRUE, partyId |-> partyId, payload |-> payload]

BodyPartyIds == {JUndefined, JNum1, JStr(" "), JStr("party_123")}
BodyPayloads == {JUndefined, JNull, JObjA}
Bodies == {NoBody} \cup {Body(p, q) : p \in BodyPartyIds, q \in BodyPayloads}
\* the requests a well-behaved client sends
PlainBodies == {Body(JStr("party_123"), q) : q \in {JNull, JObjA}}

\* an id no record was stored under
UnknownId == RandomUUID(255)
RequestIds(m) == {m[k].key : k \in 1..Len(m)} \cup {UnknownId}

Exchange(route, id, body, out) ==
    [route |-> route, id |-> id, body |-> body, before |-> store, out |-> out]

InitApi ==
    /\ rng = 0
    /\ issued = <<>>
    /\ wraps = <<>>
    /\ encLog = <<>>
    /\ last = Idle
    /\ server \in Servers
    /\ env \in EnvValues
    /\ serverKey = NoKey
    /\ phase = "boot"
    /\ store = <<>>
    /\ http = NoExchange

\* the module body of the server
Startup ==
    /\ phase = "boot"
    /\ \E boot \in {IF server = "part_000"
                    THEN [up |-> TRUE] @@ part000_startup(env)
                    ELSE IF server = "server.ts"
                    THEN serverTs_startup(env)
                    ELSE [up |-> TRUE, key |-> NoKey, log |-> <<>>]} :
        /\ phase' = IF boot.up THEN "up" ELSE "exited"
        /\ serverKey' = boot.key
        /\ http' = Exchange("startup", <<>>, NoBody,
                            Handled(0, SendError(NoErr, NoErr), boot.log, <<>>,
                                    boot.key, store, 0, <<>>))
    /\ UNCHANGED <<rng, issued, wraps, encLog, last, server, env, store>>

\* the state after a handler has run
Answer(route, id, body, out) ==
    /\ http' = Exchange(route, id, body, out)
    /\ store' = out.store
    /\ serverKey' = out.key
    /\ rng' = rng + out.draws
    /\ issued' = issued \o out.made
    /\ UNCHANGED <<wraps, encLog, last, server, env, phase>>

PostEncryptOf(bodies) ==
    /\ phase = "up"
    /\ http = NoExchange
    /\ Len(store) < MaxStored
    /\ rng < 4 * MaxStored
    /\ \E body \in bodies, createdAt \in Times :
        \E out \in {IF server = "part_000"
                    THEN part000_postEncrypt(body, serverKey, env, store, createdAt, rng)
                    ELSE IF server = "server.ts"
                    THEN serverTs_postEncrypt(body, serverKey, store, createdAt, rng)
                    ELSE pageTsx_postEncrypt(body, env, store, createdAt, rng)} :
            Answer("POST /tx/encrypt", <<>>, body, out)

PostEncrypt == PostEncryptOf(Bodies)

PostEncryptPlain == PostEncryptOf(PlainBodies)

GetTx ==
    /\ phase = "up"
    /\ http = NoExchange
    /\ \E id \in RequestIds(store) :
        \E out \in {IF server = "part_000" THEN part000_getTx(id, serverKey, store)
                    ELSE IF server = "server.ts" THEN serverTs_getTx(id, serverKey, store)
                    ELSE pageTsx_getTx(id, store)} :
            Answer("GET /tx/:id", id, NoBody, out)

PostDecrypt ==
    /\ phase = "up"
    /\ http = NoExchange
    /\ \E id \in RequestIds(store) :
        \E out \in {IF server = "part_000"
                    THEN part000_postDecrypt(id, serverKey, env, store)
                    ELSE IF server = "server.ts"
                    THEN serverTs_postDecrypt(id, serverKey, store)
                    ELSE pageTsx_postDecrypt(id, env, store)} :
            Answer("POST /tx/:id/decrypt", id, NoBody, out)

\* the response has been sent
Respond ==
    /\ http # NoExchange
    /\ http' = NoExchange
    /\ UNCHANGED <<rng, issued, wraps, encLog, last, server, env, serverKey, phase, store>>

NextApi ==
    \/ Startup
    \/ PostEncrypt
    \/ GetTx
    \/ PostDecrypt
    \/ Respond

SpecApi == InitApi /\ [][NextApi]_vars

\* what may happen to a record at rest
StoreTampers ==
    {<<T("payload_tag", "byte", 1, 1)>>,
     <<T("payload_ct", "byte", 1, 1)>>,
     <<T("dek_wrap_tag", "byte", 1, 1)>>,
     <<T("payload_nonce", "truncate", 0, 2)>>,
     <<T("dek_wrapped", "char", 1, 0)>>}

\* the record of this id as the server returned it
Issued(id) == issued[CHOOSE j \in 1..Len(issued) : issued[j].rec.id = id].rec

\* a stored record is changed behind the server's back, once
CorruptStore ==
    /\ phase = "up"
    /\ http = NoExchange
    /\ \E k \in 1..Len(store), ts \in StoreTampers :
        /\ store[k].value = Issued(store[k].key)
        /\ store' = [store EXCEPT ![k].value = Tampered(@, ts)]
    /\ UNCHANGED <<rng, issued, wraps, encLog, last, server, env, serverKey, phase, http>>

NextApiTamper ==
    \/ Startup
    \/ PostEncryptPlain
    \/ CorruptStore
    \/ GetTx
    \/ PostDecrypt
    \/ Respond

SpecApiTamper == InitApi /\ [][NextApiTamper]_vars

\* the seeds at which the random source gave an id that is in the store
StoredSeeds == {c \in 0..(rng - 1) : StoreHas(store, RandomUUID(c))}

\* POST /tx/encrypt when the random source repeats an earlier state, so
\* that crypto.randomUUID returns an id that is already stored
PostEncryptCollide ==
    /\ phase = "up"
    /\ http = NoExchange
    /\ Len(issued) < MaxStored
    /\ \E body \in PlainBodies, createdAt \in Times, c \in StoredSeeds :
        \E out \in {IF server = "part_000"
                    THEN part000_postEncrypt(body, serverKey, env, store, createdAt, c)
                    ELSE IF server = "server.ts"
                    THEN serverTs_postEncrypt(body, serverKey, store, createdAt, c)
                    ELSE pageTsx_postEncrypt(body, env, store, createdAt, c)} :
            Answer("POST /tx/encrypt", <<>>, body, out)

NextApiCollide ==
    \/ Startup
    \/ PostEncryptPlain
    \/ PostEncryptCollide
    \/ GetTx
    \/ PostDecrypt
    \/ Respond

SpecApiCollide == InitApi /\ [][NextApiCollide]_vars

(***************************************************************************)
(* Concurrent requests.  The handlers contain no await: the event loop     *)
(* runs each of them to completion, in any order of the requests that have *)
(* arrived.  http is here the sequence of the requests in flight.          *)
(***************************************************************************)
Pending(route, id, body) == [route |-> route, id |-> id, body |-> body, done |-> FALSE]

Done(x, out) ==
    [route |-> x.route, id |-> x.id, body |-> x.body, done |-> TRUE,
     before |-> store, out |-> out]

\* the servers after their module body has run with a usable MASTER_KEY
InitConcurrent ==
    /\ rng = 0
    /\ issued = <<>>
    /\ wraps = <<>>
    /\ encLog = <<>>
    /\ last = Idle
    /\ server \in Servers
    /\ env = ToHex(ReadmeKey)
    /\ serverKey = IF server = "part_000" THEN part000_startup(env).key
                   ELSE IF server = "server.ts" THEN serverTs_startup(env).key
                   ELSE NoKey
    /\ phase = "up"
    /\ store = <<>>
    /\ http = <<>>

\* a request arrives while others are still waiting for the event loop
Arrive ==
    /\ Len(http) < MaxInFlight
    /\ \/ /\ Len(issued) + Cardinality({i \in 1..Len(http) :
                                           http[i].route = "POST /tx/encrypt"}) < MaxStored
          /\ \E body \in PlainBodies :
                 http' = Append(http, Pending("POST /tx/encrypt", <<>>, body))
       \/ \E id \in RequestIds(store), route \in {"GET /tx/:id", "POST /tx/:id/decrypt"} :
              http' = Append(http, Pending(route, id, NoBody))
    /\ UNCHANGED <<rng, issued, wraps, encLog, last, server, env, serverKey, phase, store>>

\* the event loop runs the handler of one of the waiting requests
Handle ==
    \E i \in 1..Len(http), createdAt \in Times :
        /\ ~http[i].done
        /\ \E out \in {IF http[i].route = "POST /tx/encrypt"
                        THEN IF server = "part_000"
                             THEN part000_postEncrypt(http[i].body, serverKey, env, store,
                                                      createdAt, rng)
                             ELSE IF server = "server.ts"
                             THEN serverTs_postEncrypt(http[i].body, serverKey, store,
                                                       createdAt, rng)
                             ELSE pageTsx_postEncrypt(http[i].body, env, store, createdAt, rng)
                        ELSE IF http[i].route = "GET /tx/:id"
                        THEN IF server = "part_000"
                             THEN part000_getTx(http[i].id, serverKey, store)
                             ELSE IF server = "server.ts"
                             THEN serverTs_getTx(http[i].id, serverKey, store)
                             ELSE pageTsx_getTx(http[i].id, store)
                        ELSE IF server = "part_000"
                             THEN part000_postDecrypt(http[i].id, serverKey, env, store)
                             ELSE IF server = "server.ts"
                             THEN serverTs_postDecrypt(http[i].id, serverKey, store)
                             ELSE pageTsx_postDecrypt(http[i].id, env, store)} :
            /\ http' = [http EXCEPT ![i] = Done(http[i], out)]
            /\ store' = out.store
            /\ serverKey' = out.key
            /\ rng' = rng + out.draws
            /\ issued' = issued \o out.made
        /\ UNCHANGED <<wraps, encLog, last, server, env, phase>>

\* the responses are sent, once no request is waiting
Deliver ==
    /\ http # <<>>
    /\ \A i \in 1..Len(http) : http[i].done
    /\ http' = <<>>
    /\ UNCHANGED <<rng, issued, wraps, encLog, last, server, env, serverKey, phase, store>>

NextConcurrent ==
    \/ Arrive
    \/ Handle
    \/ Deliver

SpecConcurrent == InitConcurrent /\ [][NextConcurrent]_vars

(***************************************************************************)
(* The serverless handlers: apps/api/api/index.ts, the one in storage.ts,  *)
(* apps/api/api/index.js and the one of page.tsx.  Each awaits             *)
(* fastify.ready(), so invocations interleave at that point.  http is the  *)
(* sequence of invocations, phase the state of Fastify.                    *)
(***************************************************************************)
ServerlessHandlers == {"api/index.ts", "src/storage.ts", "api/index.js", "page.tsx"}

Methods == {"OPTIONS", "GET", "POST"}

\* the statuses the routes of Fastify answer with
FastifyStatuses == {200, 404}

\* res after the handler has run up to its first await or its return
serverless_enter(file, method) ==
    IF file = "api/index.js"
    THEN [method |-> method, pc |-> "await", status |-> 0, headers |-> {},
          fastify |-> FALSE]
    ELSE LET set == IF file = "api/index.ts"
                    THEN {"Access-Control-Allow-Credentials", "Access-Control-Allow-Origin",
                          "Access-Control-Allow-Methods", "Access-Control-Allow-Headers"}
                    ELSE {"Access-Control-Allow-Origin", "Access-Control-Allow-Methods",
                          "Access-Control-Allow-Headers"}
         IN  IF method = "OPTIONS"
             THEN [method |-> method, pc |-> "done", status |-> 200, headers |-> set,
                   fastify |-> FALSE]
             ELSE [method |-> method, pc |-> "await", status |-> 0, headers |-> set,
                   fastify |-> FALSE]

\* fastify.ready() has resolved: fastify.server.emit('request', req, res)
serverless_delegate(file, res, status) ==
    [res EXCEPT !.pc = "done", !.status = status, !.fastify = TRUE]

\* fastify.ready() has rejected: the catch block, or none in index.js
serverless_catch(file, res) ==
    IF file = "api/index.js"
    THEN [res EXCEPT !.pc = "rejected", !.status = 500]
    ELSE IF file = "page.tsx"
    THEN [res EXCEPT !.pc = "done", !.status = 500]
    ELSE [res EXCEPT !.pc = "done", !.status = 500,
                     !.headers = @ \cup
                         (IF file = "api/index.ts"
                          THEN {"Access-Control-Allow-Credentials",
                                "Access-Control-Allow-Origin",
                                "Access-Control-Allow-Methods",
                                "Access-Control-Allow-Headers"}
                          ELSE {"Access-Control-Allow-Origin"})]

InitServerless ==
    /\ rng = 0
    /\ issued = <<>>
    /\ wraps = <<>>
    /\ encLog = <<>>
    /\ last = Idle
    /\ server \in ServerlessHandlers
    /\ env = ToHex(ReadmeKey)
    /\ serverKey = NoKey
    /\ phase = "cold"
    /\ store = <<>>
    /\ http = <<>>

Invoke ==
    /\ Len(http) < MaxInFlight
    /\ \E method \in Methods : http' = Append(http, serverless_enter(server, method))
    /\ UNCHANGED <<rng, issued, wraps, encLog, last, server, env, serverKey, phase, store>>

FastifyReady ==
    /\ phase \in {"cold", "up"}
    /\ \E i \in 1..Len(http), status \in FastifyStatuses :
        /\ http[i].pc = "await"
        /\ http' = [http EXCEPT ![i] = serverless_delegate(server, @, status)]
    /\ phase' = "up"
    /\ UNCHANGED <<rng, issued, wraps, encLog, last, server, env, serverKey, store>>

FastifyBootError ==
    /\ phase \in {"cold", "failed"}
    /\ \E i \in 1..Len(http) :
        /\ http[i].pc = "await"
        /\ http' = [http EXCEPT ![i] = serverless_catch(server, @)]
    /\ phase' = "failed"
    /\ UNCHANGED <<rng, issued, wraps, encLog, last, server, env, serverKey, store>>

\* the responses are sent, once no invocation is waiting
Finish ==
    /\ http # <<>>
    /\ \A i \in 1..Len(http) : http[i].pc # "await"
    /\ http' = <<>>
    /\ UNCHANGED <<rng, issued, wraps, encLog, last, server, env, serverKey, phase, store>>

NextServerless ==
    \/ Invoke
    \/ FastifyReady
    \/ FastifyBootError
    \/ Finish

SpecServerless == InitServerless /\ [][NextServerless]_vars

\* the values process.env.MASTER_KEY may be given while the server runs
RuntimeEnvValues == EnvValues \cup {ToHex(ZeroKey)}

\* process.env.MASTER_KEY is assigned between two requests
SetEnv ==
    /\ phase = "up"
    /\ http = NoExchange
    /\ \E e \in RuntimeEnvValues \ {env} : env' = e
    /\ UNCHANGED <<rng, issued, wraps, encLog, last, server, serverKey, phase, store, http>>

NextApiEnv ==
    \/ Startup
    \/ SetEnv
    \/ PostEncryptPlain
    \/ GetTx
    \/ PostDecrypt
    \/ Respond

SpecApiEnv == InitApi /\ [][NextApiEnv]_vars

(***************************************************************************)
(* Properties                                                              *)
(***************************************************************************)
\* the issued record the last call was made on
Src == issued[last.src]

Events(out) == {out.ev[i] : i \in 1..Len(out.ev)}

FormatMessages == {"Invalid hex string for", "Invalid length for"}

AllHex(s) == \A i \in 1..Len(s) : s[i] \in HexChars

\* s is a non-empty string of hex digits, of 2 * n characters when n > 0
WellFormed(s, n) == Len(s) > 0 /\ AllHex(s) /\ (n = 0 \/ Len(s) = 2 * n)

PayloadWellFormed(rec) ==
    /\ WellFormed(rec.payload_nonce, 12)
    /\ WellFormed(rec.payload_tag, 16)
    /\ WellFormed(rec.payload_ct, 0)

WrapWellFormed(rec) ==
    /\ WellFormed(rec.dek_wrap_nonce, 12)
    /\ WellFormed(rec.dek_wrap_tag, 16)
    /\ WellFormed(rec.dek_wrapped, 0)

\* the value JSON.parse(JSON.stringify(p)) is structurally equal to
JsonRoundTrip(p) == IF p = JNaN THEN JNull ELSE p

\* C1: for a record made by encryptEnvelope(partyId, P, M), unwrapDEK(record, M)
\* returns the record's DEK and decryptPayload(record, that DEK) returns P as
\* it is after a JSON round trip.
C1_RoundTrip ==
    /\ (last.op = "unwrapDEK" /\ last.tamper = <<>> /\ last.key = Src.mk)
          => (last.out.ok /\ last.out.val = Src.dek)
    /\ (last.op = "decryptPayload" /\ last.tamper = <<>> /\ last.via = "unwrapDEK"
          /\ last.mk = Src.mk)
          => (last.out.ok /\ last.out.val = JsonRoundTrip(Src.payload))

C1_Witness ==
    /\ last.op = "decryptPayload"
    /\ last.src = 2
    /\ last.tamper = <<>>
    /\ last.via = "unwrapDEK"
    /\ last.mk = Src.mk
    /\ Src.payload = JObjA
    /\ last.out.ok
    /\ last.out.val = JObjA

\* C2 (as claimed): with the correct key, any change of a byte of payload_ct
\* and any change of payload_tag that keeps it well-formed makes
\* decryptPayload fail with the tamper error, and any such change of
\* dek_wrap_tag makes unwrapDEK fail with its tamper error.
C2_AnyChangeDetected ==
    /\ (/\ last.op = "decryptPayload"
        /\ last.key = Src.dek
        /\ Len(last.tamper) = 1
        /\ \/ last.tamper[1].field = "payload_ct" /\ last.tamper[1].kind = "byte"
           \/ /\ last.tamper[1].field = "payload_tag"
              /\ last.rec.payload_tag # Src.rec.payload_tag
              /\ WellFormed(last.rec.payload_tag, 16))
          => (~last.out.ok /\ last.out.err = DecryptError)
    /\ (/\ last.op = "unwrapDEK"
        /\ last.key = Src.mk
        /\ Len(last.tamper) = 1
        /\ last.tamper[1].field = "dek_wrap_tag"
        /\ last.rec.dek_wrap_tag # Src.rec.dek_wrap_tag
        /\ WellFormed(last.rec.dek_wrap_tag, 16))
          => (~last.out.ok /\ last.out.err = UnwrapError)

\* C2 (amended): with the correct key and well-formed fields, a record whose
\* payload_ct or payload_tag decodes to other bytes than the original makes
\* decryptPayload fail with the tamper error, and one whose dek_wrap_tag
\* decodes to other bytes makes unwrapDEK fail with its tamper error.
C2_ByteChangeDetected ==
    /\ (/\ last.op = "decryptPayload"
        /\ last.key = Src.dek
        /\ PayloadWellFormed(last.rec)
        /\ \/ FromHex(last.rec.payload_ct) # FromHex(Src.rec.payload_ct)
           \/ FromHex(last.rec.payload_tag) # FromHex(Src.rec.payload_tag))
          => (~last.out.ok /\ last.out.err = DecryptError)
    /\ (/\ last.op = "unwrapDEK"
        /\ last.key = Src.mk
        /\ WrapWellFormed(last.rec)
        /\ FromHex(last.rec.dek_wrap_tag) # FromHex(Src.rec.dek_wrap_tag))
          => (~last.out.ok /\ last.out.err = UnwrapError)

C2_Witness ==
    /\ last.op = "decryptPayload"
    /\ last.key = Src.dek
    /\ last.tamper = <<T("payload_tag", "byte", 16, 1)>>
    /\ last.out.err = DecryptError

\* C3: unwrapDEK of a record made under master key A fails with the unwrap
\* tamper error for every 32-byte key other than A.
C3_WrongMasterKey ==
    (last.op = "unwrapDEK" /\ last.tamper = <<>> /\ Len(last.key) = 32
        /\ last.key # Src.mk)
      => (~last.out.ok /\ last.out.err = UnwrapError)

C3_Witness ==
    /\ last.op = "unwrapDEK"
    /\ last.tamper = <<>>
    /\ Src.mk = ZeroKey
    /\ last.key = ReadmeKey
    /\ last.out.err = UnwrapError

\* C4: wrapDEK, unwrapDEK and encryptEnvelope fail with the key-length error
\* whenever the master key is not 32 bytes long, whatever the other arguments.
C4_KeyLength ==
    (last.op \in {"wrapDEK", "unwrapDEK", "encryptEnvelope"} /\ Len(last.key) # 32)
      => (~last.out.ok /\ last.out.err = KeyLengthError)

C4_Witness ==
    /\ last.op = "unwrapDEK"
    /\ Len(last.key) = 33
    /\ ~WrapWellFormed(last.rec)
    /\ last.out.err.msg = "Invalid Master Key length: expected 32 bytes"

\* C5: a call of encryptEnvelope with a master key that is not 32 bytes long
\* fails without drawing from the random source, without encrypting and
\* without producing a record.
C5_FailFast ==
    [][(last'.op = "encryptEnvelope" /\ last.op = "none" /\ Len(last'.key) # KEY_LENGTH)
        => (/\ ~last'.out.ok
            /\ last'.out.err = KeyLengthError
            /\ last'.out.draws = 0
            /\ last'.out.ev = <<>>
            /\ rng' = rng
            /\ issued' = issued
            /\ encLog' = encLog)]_vars

C5_Witness ==
    /\ last.op = "encryptEnvelope"
    /\ Len(last.key) = 16
    /\ ~last.out.ok
    /\ Len(issued) = 1

\* C6: decryptPayload rejects, with a format error naming payload_nonce and
\* before it creates a decipher, every record whose payload_nonce is not
\* exactly 24 hex characters.
C6_NonceLength ==
    (last.op = "decryptPayload"
        /\ (Len(last.rec.payload_nonce) # 24 \/ ~AllHex(last.rec.payload_nonce)))
      => (/\ ~last.out.ok
          /\ last.out.err.msg \in FormatMessages
          /\ last.out.err.field = "payload_nonce"
          /\ "createDecipheriv" \notin Events(last.out))

C6_Witness ==
    /\ last.op = "decryptPayload"
    /\ last.key = Src.dek
    /\ last.tamper = <<T("payload_nonce", "append", 0, 2)>>
    /\ last.out.err = LengthError("payload_nonce", 12, 26)

\* a field the regular expression rejects
BadHex(s) == Len(s) = 0 \/ ~AllHex(s)

\* C7 (as claimed): a character that is not a hex digit in one of the three
\* fields an operation reads makes it fail with 'Invalid hex string for'.
C7_AlwaysHexError ==
    /\ (last.op = "decryptPayload"
        /\ \E f \in PayloadFields : ~AllHex(last.rec[f]))
          => (~last.out.ok /\ last.out.err.msg = "Invalid hex string for")
    /\ (last.op = "unwrapDEK" /\ Len(last.key) = 32
        /\ \E f \in WrapFields : ~AllHex(last.rec[f]))
          => (~last.out.ok /\ last.out.err.msg = "Invalid hex string for")

\* the error validateHex-style checking gives for the fields nonce, tag and
\* body, taken in this order
FirstFormatError(rec, nonceField, tagField, bodyField) ==
    IF BadHex(rec[nonceField]) THEN HexError(nonceField)
    ELSE IF Len(rec[nonceField]) # 24 THEN LengthError(nonceField, 12, Len(rec[nonceField]))
    ELSE IF BadHex(rec[tagField]) THEN HexError(tagField)
    ELSE IF Len(rec[tagField]) # 32 THEN LengthError(tagField, 16, Len(rec[tagField]))
    ELSE HexError(bodyField)

\* C7 (amended): a character that is not a hex digit in one of the three
\* fields makes the operation fail with a format error and not a tamper
\* error: the error of the first field, in the order nonce, tag, ciphertext
\* (or wrapped key), that is malformed, which is 'Invalid hex string for'
\* unless that field is made of hex digits and has the wrong length.
C7_FormatError ==
    /\ (last.op = "decryptPayload"
        /\ \E f \in PayloadFields : ~AllHex(last.rec[f]))
          => (/\ ~last.out.ok
              /\ last.out.err.msg \in FormatMessages
              /\ last.out.err =
                    FirstFormatError(last.rec, "payload_nonce", "payload_tag", "payload_ct"))
    /\ (last.op = "unwrapDEK" /\ Len(last.key) = 32
        /\ \E f \in WrapFields : ~AllHex(last.rec[f]))
          => (/\ ~last.out.ok
              /\ last.out.err.msg \in FormatMessages
              /\ last.out.err =
                    FirstFormatError(last.rec, "dek_wrap_nonce", "dek_wrap_tag", "dek_wrapped"))

C7_Witness ==
    /\ last.op = "decryptPayload"
    /\ last.key = Src.dek
    /\ last.tamper = <<T("payload_ct", "char", 1, 0)>>
    /\ last.out.err = HexError("payload_ct")

\* C8: unwrapDEK and decryptPayload create a decipher only after all three
\* fields passed their format checks, so a malformed record gives a format
\* error whatever the key and whatever else was changed; unwrapDEK checks the
\* master key length before any field.
C8_FormatBeforeCrypto ==
    /\ (last.op = "decryptPayload" /\ ~PayloadWellFormed(last.rec))
          => (/\ ~last.out.ok
              /\ last.out.err.msg \in FormatMessages
              /\ "createDecipheriv" \notin Events(last.out))
    /\ (last.op = "unwrapDEK" /\ Len(last.key) = 32 /\ ~WrapWellFormed(last.rec))
          => (/\ ~last.out.ok
              /\ last.out.err.msg \in FormatMessages
              /\ "createDecipheriv" \notin Events(last.out))
    /\ (last.op = "unwrapDEK" /\ Len(last.key) # 32)
          => (last.out.err = KeyLengthError /\ last.out.ev = <<>>)
    /\ (last.op = "decryptPayload" /\ "createDecipheriv" \in Events(last.out))
          => PayloadWellFormed(last.rec)
    /\ (last.op = "unwrapDEK" /\ "createDecipheriv" \in Events(last.out))
          => WrapWellFormed(last.rec)

C8_Witness ==
    /\ last.op = "unwrapDEK"
    /\ last.key = OtherDek
    /\ last.tamper = <<T("dek_wrapped", "fill", 0, 0), T("dek_wrap_tag", "byte", 1, 1)>>
    /\ last.out.err = HexError("dek_wrapped")

C10_NoNonceReuse ==
    /\ Len(encLog) = 2 * Len(issued)
    /\ \A i, j \in 1..Len(encLog) : i # j => encLog[i] # encLog[j]
    /\ \A i, j \in 1..Len(issued) :
          i # j => /\ issued[i].dek # issued[j].dek
                   /\ issued[i].mk = issued[j].mk
                         => issued[i].rec.dek_wrap_nonce # issued[j].rec.dek_wrap_nonce

C10_Witness ==
    /\ Len(issued) = 2
    /\ issued[1].mk = issued[2].mk
    /\ issued[1].payload = issued[2].payload
    /\ Len(encLog) = 4

\* decryptPayload(record, unwrapDEK(record, masterKey)): what a holder of the
\* master key recovers from a record
Recover(rec, masterKey) ==
    LET dek == unwrapDEK(rec, masterKey)
    IN  IF dek.ok THEN decryptPayload(rec, dek.val) ELSE dek

\* two issued records made from the same (partyId, payload, masterKey)
SameRequest(i, j) ==
    /\ i # j
    /\ issued[i].rec.partyId = issued[j].rec.partyId
    /\ issued[i].payload = issued[j].payload
    /\ issued[i].mk = issued[j].mk

\* what C11 says of any two records of the same request, the ciphertext aside
FreshPerCall(a, b) ==
    /\ a.rec.id # b.rec.id
    /\ a.rec.payload_nonce # b.rec.payload_nonce
    /\ a.rec.dek_wrap_nonce # b.rec.dek_wrap_nonce
    /\ a.rec.payload_tag # b.rec.payload_tag
    /\ a.rec.payload_nonce # a.rec.dek_wrap_nonce
    /\ b.rec.payload_nonce # b.rec.dek_wrap_nonce
    /\ Recover(a.rec, a.mk).ok
    /\ Recover(b.rec, b.mk).ok
    /\ Recover(a.rec, a.mk).val = Recover(b.rec, b.mk).val
    /\ Recover(a.rec, a.mk).val = JsonRoundTrip(a.payload)

\* C11 as stated: two calls of encryptEnvelope with identical (partyId,
\* payload, masterKey) return records that differ in id, in both nonces, in
\* ciphertext and in tag, each record has two different nonces, and both
\* records decrypt to the same payload.
C11_AllFieldsDiffer ==
    \A i, j \in 1..Len(issued) :
        SameRequest(i, j) =>
            /\ FreshPerCall(issued[i], issued[j])
            /\ issued[i].rec.payload_ct # issued[j].rec.payload_ct

\* C11 as amended: the records differ in id, in both nonces and in the tag,
\* each record has two different nonces and both decrypt to the same
\* payload; the two ciphertexts have the same length, and differ whenever
\* the two key streams differ on the bytes of the payload.
C11_FreshRandomness ==
    \A i, j \in 1..Len(issued) :
        SameRequest(i, j) =>
            /\ FreshPerCall(issued[i], issued[j])
            /\ Len(issued[i].rec.payload_ct) = Len(issued[j].rec.payload_ct)
            /\ <<issued[i].rec.payload_ct, issued[i].rec.payload_tag>>
                   # <<issued[j].rec.payload_ct, issued[j].rec.payload_tag>>

C11_Witness ==
    /\ Len(issued) = 2
    /\ SameRequest(1, 2)
    /\ last.op = "decryptPayload"
    /\ last.src = 2
    /\ last.via = "unwrapDEK"
    /\ last.out.ok

\* C13 as stated: whenever unwrapDEK returns a value, for the wrap fields of
\* a record or of a direct wrapDEK call and any master key, the value is 32
\* bytes long.
C13_AlwaysKeyLength ==
    (last.op \in {"unwrapDEK", "unwrapWrapped"} /\ last.out.ok)
        => Len(last.out.val) = KEY_LENGTH

\* C13 as amended: whenever unwrapDEK returns a value it is the buffer that
\* was wrapped, with its length: 32 bytes for every record of encryptEnvelope
\* and for every wrap of a 32-byte DEK.
C13_LengthOfWrapped ==
    /\ (last.op = "unwrapDEK" /\ last.out.ok)
          => (last.out.val = Src.dek /\ Len(last.out.val) = KEY_LENGTH)
    /\ (last.op = "unwrapWrapped" /\ last.out.ok)
          => /\ last.out.val = last.arg.payload
             /\ Len(last.arg.payload) = KEY_LENGTH => Len(last.out.val) = KEY_LENGTH

C13_Witness ==
    /\ last.op = "unwrapWrapped"
    /\ last.out.ok
    /\ last.arg.payload = OtherDek
    /\ Len(last.out.val) = KEY_LENGTH

\* the hex fields of a record have the sizes encryptEnvelope gives them
RecordShape(rec) ==
    /\ rec.alg = "AES-256-GCM"
    /\ rec.mk_version = 1
    /\ WellFormed(rec.payload_nonce, NONCE_LENGTH)
    /\ WellFormed(rec.dek_wrap_nonce, NONCE_LENGTH)
    /\ WellFormed(rec.payload_tag, TAG_LENGTH)
    /\ WellFormed(rec.dek_wrap_tag, TAG_LENGTH)
    /\ WellFormed(rec.dek_wrapped, KEY_LENGTH)
    /\ WellFormed(rec.payload_ct, 0)
    /\ \A f \in {"dek_wrap_nonce", "dek_wrap_tag"} :
           validateHex(rec[f], IF f = "dek_wrap_nonce" THEN NONCE_LENGTH ELSE TAG_LENGTH, f) = NoErr
    /\ \A f \in {"payload_nonce", "payload_tag"} :
           validateHex(rec[f], IF f = "payload_nonce" THEN NONCE_LENGTH ELSE TAG_LENGTH, f) = NoErr
    /\ HexRegexTest(rec.dek_wrapped)
    /\ HexRegexTest(rec.payload_ct)

\* C14: every record encryptEnvelope returns carries the partyId it was
\* given, alg "AES-256-GCM" and mk_version 1, nonces of 24, tags of 32 and a
\* wrapped DEK of 64 hex digits and a non-empty hex ciphertext, and so passes
\* every format check of unwrapDEK and decryptPayload.
C14_RecordWellFormed ==
    /\ \A k \in 1..Len(issued) : RecordShape(issued[k].rec)
    /\ (last.op = "encryptEnvelope" /\ last.out.ok)
          => /\ last.out.val.partyId = last.arg.partyId
             /\ last.out.val.createdAt = last.arg.createdAt
             /\ RecordShape(last.out.val)
    /\ (last.op \in {"unwrapDEK", "decryptPayload"} /\ last.tamper = <<>>
           /\ ~last.out.ok)
          => last.out.err.msg \notin FormatMessages

C14_Witness ==
    /\ last.op = "encryptEnvelope"
    /\ last.out.ok
    /\ last.arg.partyId = "party_B"
    /\ Len(issued) = 2
    /\ Len(last.out.val.payload_ct) = 14

\* x occurs in s as a run of consecutive characters
Occurs(x, s) == \E i \in 0..(Len(s) - Len(x)) : SubSeq(s, i + 1, i + Len(x)) = x

\* the fields of a record that hold text the engine produced
TextFields ==
    {"id", "payload_nonce", "payload_ct", "payload_tag",
     "dek_wrap_nonce", "dek_wrapped", "dek_wrap_tag"}

\* the record shows the DEK, as bytes in hex
Shows(record, dek) == \E f \in TextFields : Occurs(ToHex(dek), record[f])

\* C12: the plaintext DEK of a record the server created is in no stored
\* record, in no response body and in no log line.
C12_DekNotExposed ==
    \A j \in 1..Len(issued) :
        /\ \A k \in 1..Len(store) : ~Shows(store[k].value, issued[j].dek)
        /\ http # NoExchange =>
            /\ http.out.body.kind = "record" => ~Shows(http.out.body.record, issued[j].dek)
            /\ \A l \in 1..Len(http.out.log) :
                   ~Occurs(ToHex(issued[j].dek), http.out.log[l].txId)

C12_Witness ==
    /\ http # NoExchange
    /\ http.route = "POST /tx/encrypt"
    /\ http.out.status = 200
    /\ Len(http.out.log) = 2
    /\ Len(store) = 2
    /\ Len(issued) = 2

\* the server is answering a decrypt request for the record issued[j]
DecryptingIssued(j) ==
    /\ http.route = "POST /tx/:id/decrypt"
    /\ http.id = issued[j].rec.id

\* C15: for every id returned by a successful POST /tx/encrypt with payload
\* P, POST /tx/:id/decrypt answers 200 with { payload: P } as long as the
\* master key configuration and the store are left alone.
C15_StoreRoundTrip ==
    \A j \in 1..Len(issued) :
        DecryptingIssued(j) =>
            /\ http.out.status = 200
            /\ http.out.body = SendPayload(issued[j].payload)

C15_Witness ==
    /\ server = "part_000"
    /\ Len(issued) = 2
    /\ DecryptingIssued(2)
    /\ http.out.status = 200
    /\ http.out.body.payload = JObjA
    /\ issued[1].payload = JNull

\* the server is answering a request that names a record by id
ById == http.route \in {"GET /tx/:id", "POST /tx/:id/decrypt"}

\* fetch-by-id and decrypt-by-id: 404 with this text exactly when the id is
\* not stored, else GET sends the stored record, which is the issued one
FetchContract(text) ==
    ById =>
        LET absent == ~StoreHas(http.before, http.id)
        IN  /\ (http.out.status = 404) <=> absent
            /\ absent => http.out.body = SendError(ErrText(text), NoErr)
            /\ (~absent /\ http.route = "GET /tx/:id") =>
                   /\ http.out.status = 200
                   /\ http.out.body = SendRecord(StoreGet(http.before, http.id))
                   /\ http.out.body.record = Issued(http.id)
            /\ http.out.store = http.before

\* C16 as stated: the 404 always says 'Transaction not found'.
C16_TransactionNotFound == FetchContract("Transaction not found")

\* C16: fetch-by-id and decrypt-by-id answer 404 exactly when no record is
\* stored under the id, with the error 'Transaction not found' in part_000
\* and server.ts and 'Not found' in the server inlined in page.tsx; else
\* GET /tx/:id returns the stored record, equal to the one create-and-store
\* returned.
C16_NotFoundWhenAbsent ==
    FetchContract(IF server = "page.tsx" THEN "Not found" ELSE "Transaction not found")

C16_Witness ==
    /\ http.route = "GET /tx/:id"
    /\ Len(store) = 2
    /\ \/ server = "page.tsx" /\ http.out.status = 404
       \/ server = "part_000" /\ http.out.status = 200 /\ http.id = store[2].key

\* the server has refused to decrypt a record that is in the store
DecryptRefused ==
    /\ http.route = "POST /tx/:id/decrypt"
    /\ StoreHas(http.before, http.id)
    /\ http.out.status # 200

\* C17: for a stored record every failure of decrypt-by-id is answered with
\* the same body, { error: 'Decryption failed' }, whatever the cause, and
\* the body never carries the engine's error message.
C17_GenericDecryptError ==
    DecryptRefused =>
        /\ http.out.status = 400
        /\ http.out.body = SendError(ErrText("Decryption failed"), NoErr)

C17_Witness ==
    /\ DecryptRefused
    /\ server = "part_000"
    /\ \E l \in 1..Len(http.out.log) :
           http.out.log[l].error \notin {NoErr, DecryptError}

\* partyId missing, not a string or blank, or payload missing
InvalidBody(b) ==
    \/ ~b.present
    \/ b.partyId.t # "string"
    \/ Trim(b.partyId.v) = ""
    \/ b.payload = JUndefined

\* C18: create-and-store answers 400 to every request whose partyId is
\* missing, not a string or blank, or whose payload is missing; it then
\* draws no key material and leaves the store as it was.
C18_InvalidRequestRejected ==
    (http.route = "POST /tx/encrypt" /\ InvalidBody(http.body)) =>
        /\ http.out.status = 400
        /\ http.out.draws = 0
        /\ http.out.made = <<>>
        /\ http.out.store = http.before

C18_Witness ==
    /\ http.route = "POST /tx/encrypt"
    /\ server = "part_000"
    /\ http.body = Body(JNum1, JObjA)
    /\ http.out.status = 400
    /\ Len(store) = 1

\* exactly 64 hexadecimal characters
ValidKeyText(e) == Len(e) = 64 /\ \A i \in 1..Len(e) : IsHexChar(e[i])

\* C19: every master key a route passes to encryptEnvelope or unwrapDEK is
\* the 32 bytes decoded from a MASTER_KEY of exactly 64 hexadecimal
\* characters, whatever the value of MASTER_KEY.
C19_OnlyValidatedKeys ==
    http # NoExchange =>
        \A l \in 1..Len(http.out.calls) :
            /\ ValidKeyText(env)
            /\ http.out.calls[l].key = FromHex(env)
            /\ Len(http.out.calls[l].key) = KEY_LENGTH

C19_Witness ==
    /\ server = "part_000"
    /\ env = NonHexEnv
    /\ http.route = "POST /tx/encrypt"
    /\ ~InvalidBody(http.body)
    /\ http.out.status = 400
    /\ http.out.calls = <<>>

\* C20: when MASTER_KEY is absent or has the wrong length or format, every
\* create-and-store and decrypt-by-id request is refused and the store is
\* the same after the request as before it.
C20_ConfigErrorKeepsStore ==
    (/\ ~ValidKeyText(env)
     /\ http.route \in {"POST /tx/encrypt", "POST /tx/:id/decrypt"}) =>
        /\ http.out.status \in {400, 404, 500}
        /\ http.out.store = http.before
        /\ store = http.before
        /\ http.out.made = <<>>

C20_Witness ==
    /\ server = "part_000"
    /\ env = ToHex(ShortKey)
    /\ http.route = "POST /tx/encrypt"
    /\ ~InvalidBody(http.body)
    /\ http.out.status = 400
    /\ http.out.body = SendError(ErrText("Encryption failed"), NoErr)
    /\ store = <<>>

\* a request that needs the master key, under a MASTER_KEY that is not usable
NeedsKeyUnderConfigError ==
    /\ ~ValidKeyText(env)
    /\ http.route = "POST /tx/encrypt"
    /\ ~InvalidBody(http.body)

\* C21: a configuration error is a server-side fault: the server does not
\* start, or the request that needs the key is answered with a 5xx status,
\* never with a 4xx one.
C21_ConfigErrorIsServerFault ==
    NeedsKeyUnderConfigError => http.out.status >= 500

C21_Witness ==
    /\ server = "server.ts"
    /\ env = ToHex(ShortKey)
    /\ phase = "exited"

\* every entry of the store is still there, unchanged, after the step
EntriesKept == \A k \in 1..Len(store) : Len(store') >= k /\ store'[k] = store[k]

\* C22: once a record is stored under an id the store maps the id to that
\* record in all later states; no request changes, replaces or removes it,
\* also when create-and-store generates an id that is already present.
C22_StoredRecordsImmutable == [][EntriesKept]_vars

C22_Witness ==
    /\ Len(issued) = 2
    /\ Len(store) = 1
    /\ issued[1].rec.id = issued[2].rec.id
    /\ http.route = "POST /tx/encrypt"
    /\ http.out.status = 200

\* the store a sequential run of the creates, in the order of issue, leaves
SequentialStore ==
    [j \in 1..Len(issued) |-> [key |-> issued[j].rec.id, value |-> issued[j].rec]] \o <<>>

\* what the request x is answered when it runs alone on the store m
AnsweredAlone(x, m) ==
    IF x.route = "GET /tx/:id"
    THEN IF StoreHas(m, x.id) THEN SendRecord(Issued(x.id))
         ELSE SendError(ErrText(IF server = "page.tsx" THEN "Not found"
                                ELSE "Transaction not found"), NoErr)
    ELSE IF StoreHas(m, x.id)
         THEN SendPayload(issued[CHOOSE j \in 1..Len(issued) :
                                     issued[j].rec.id = x.id].payload)
         ELSE SendError(ErrText(IF server = "page.tsx" THEN "Not found"
                                ELSE "Transaction not found"), NoErr)

\* C23: however the requests in flight interleave, the store is the one a
\* sequential run of the creates leaves, no created record is lost, and
\* each record fetched or decrypted is the one created under its id.
C23_SequentialOutcome ==
    /\ store = SequentialStore
    /\ \A i \in 1..Len(http) :
        (http[i].done /\ http[i].route # "POST /tx/encrypt") =>
            http[i].out.body = AnsweredAlone(http[i], http[i].before)
    /\ \A i \in 1..Len(http) :
        (http[i].done /\ http[i].route = "POST /tx/encrypt") =>
            IF http[i].out.status = 200
            THEN StoreGet(store, http[i].out.body.record.id) = http[i].out.body.record
            ELSE http[i].out.store = http[i].before

\* two creates in flight at once, handled in the reverse order of arrival
C23_Witness ==
    /\ Len(http) = 2
    /\ http[1].done /\ http[2].done
    /\ http[1].route = "POST /tx/encrypt"
    /\ http[2].route = "POST /tx/encrypt"
    /\ Len(store) = 2
    /\ store[1].key = http[2].out.body.record.id
    /\ store[2].key = http[1].out.body.record.id

\* C24: every response of a serverless handler carries the header
\* Access-Control-Allow-Origin, the answer to OPTIONS and the 500 sent when
\* Fastify does not become ready included, and OPTIONS is answered 200
\* without waiting for or invoking Fastify.
C24_CorsOnEveryResponse ==
    \A i \in 1..Len(http) :
        /\ http[i].pc # "await" => "Access-Control-Allow-Origin" \in http[i].headers
        /\ http[i].method = "OPTIONS" =>
               /\ http[i].pc = "done"
               /\ http[i].status = 200
               /\ ~http[i].fastify

C24_Witness ==
    /\ server = "api/index.ts"
    /\ Len(http) = 2
    /\ http[1].method = "OPTIONS"
    /\ http[2].method = "POST" /\ http[2].status = 500
    /\ phase = "failed"

\* the errors the engine throws itself: key length, format, tamper
ControlledErrors ==
    FormatMessages \cup {KeyLengthError.msg, UnwrapError.msg, DecryptError.msg}

\* C25: unwrapDEK and decryptPayload fail only with the key-length error, a
\* format error or the generic tamper error, for key buffers of any length;
\* no error of the cipher library escapes.
C25_OnlyControlledErrors ==
    (last.op \in {"unwrapDEK", "unwrapWrapped", "decryptPayload"} /\ ~last.out.ok) =>
        /\ last.out.err.msg \in ControlledErrors
        /\ last.out.err.code = ""

C25_Witness ==
    /\ last.op = "unwrapDEK"
    /\ Len(last.key) # KEY_LENGTH
    /\ last.out.err = KeyLengthError

\* C26: when the fields are well-formed and the tag verifies but the bytes
\* decrypted are not JSON, decryptPayload returns no value and fails with
\* the error of a tag-verification failure, 'Failed to decrypt payload:
\* potential tampering or invalid DEK'.
C26_ParseFailureIsTamperError ==
    last.op = "decryptForged" =>
        LET nonce    == FromHex(last.rec.payload_nonce)
            ct       == FromHex(last.rec.payload_ct)
            badTag   == decryptPayload(Tampered(last.rec, <<T("payload_tag", "byte", 1, 1)>>),
                                       last.key)
        IN  /\ PayloadWellFormed(last.rec)
            /\ FromHex(last.rec.payload_tag) = AuthTag(last.key, nonce, ct)
            /\ ~IsJsonText(CtrDecrypt(last.key, nonce, ct))
            /\ ~last.out.ok
            /\ last.out.val = NoVal
            /\ ~badTag.ok
            /\ last.out.err = badTag.err
            /\ last.out.err.msg =
                   "Failed to decrypt payload: potential tampering or invalid DEK"

C26_Witness ==
    /\ last.op = "decryptForged"
    /\ CtrDecrypt(last.key, FromHex(last.rec.payload_nonce),
                  FromHex(last.rec.payload_ct)) = <<110, 117, 108>>
    /\ "JSON.parse" \in {last.out.ev[i] : i \in 1..Len(last.out.ev)}

\* C27: two records that agree on the six nonce, ciphertext and tag fields
\* give the same outcome of unwrapDEK followed by decryptPayload under the
\* same master key, the same payload or the same error, whatever their id,
\* partyId, createdAt, alg and mk_version are.
C27_MetadataIgnored ==
    last.op = "recoverRestamped" =>
        LET original == Tampered(issued[last.src].rec, last.tamper)
        IN  /\ \A f \in HexFields : last.rec[f] = original[f]
            /\ \E f \in MetaFields : last.rec[f] # original[f]
            /\ last.out = Recover(original, last.mk)

C27_Witness ==
    /\ last.op = "recoverRestamped"
    /\ last.rec.mk_version = 2
    /\ last.rec.alg = "none"
    /\ last.rec.id # issued[last.src].rec.id
    /\ last.out.ok
    /\ last.out.val = issued[last.src].payload

\* the field f of the record of the last call has an odd number of digits
OddDigits(f) == Len(last.rec[f]) % 2 = 1

\* C28: a payload_ct (for decryptPayload) or a dek_wrapped (for unwrapDEK)
\* with an odd number of hex digits is rejected and never decrypts to a
\* payload or a DEK.
C28_OddLengthRejected ==
    /\ (last.op = "decryptPayload" /\ OddDigits("payload_ct")) => ~last.out.ok
    /\ (last.op = "unwrapDEK" /\ OddDigits("dek_wrapped")) => ~last.out.ok

C28_Witness ==
    /\ last.op = "decryptPayload"
    /\ OddDigits("payload_ct")
    /\ last.tamper = <<T("payload_ct", "append", 0, 1)>>
    /\ last.key = issued[last.src].dek

\* masterKey is undefined or the 32 bytes of a MASTER_KEY that passed
\* validateAndGetMasterKey
CachedKeyValidated ==
    \/ serverKey = NoKey
    \/ /\ serverKey.set
       /\ Len(serverKey.buf) = KEY_LENGTH
       /\ \E e \in RuntimeEnvValues : ValidKeyText(e) /\ serverKey.buf = FromHex(e)

\* the handler answering has passed its validation and come to the key
NeedsKey ==
    \/ http.route = "POST /tx/encrypt" /\ ~InvalidBody(http.body)
    \/ http.route = "POST /tx/:id/decrypt" /\ StoreHas(http.before, http.id)

\* a request that came to the key: with masterKey still unset it was
\* refused without an engine call, and with a usable MASTER_KEY it was not
LazyLoad ==
    NeedsKey =>
        /\ serverKey = NoKey => (http.out.status = 400 /\ http.out.calls = <<>>
                                 /\ http.out.store = http.before)
        /\ ValidKeyText(env) => (serverKey.set /\ http.out.calls # <<>>)

\* C29: in the server with lazy key loading the cached master key is unset
\* or a validated 32-byte key; once set it never changes; a failed
\* validation leaves it unset, the request is refused, and the next
\* request validates again.
C29_CachedKey ==
    /\ [](server = "part_000" => (CachedKeyValidated /\ LazyLoad))
    /\ [][(server = "part_000" /\ serverKey.set) => serverKey' = serverKey]_vars

\* the key was loaded inside a request, after MASTER_KEY was set to a value
\* it did not have at startup, and is kept when MASTER_KEY changes again
C29_Witness ==
    /\ server = "part_000"
    /\ serverKey = Key(ZeroKey)
    /\ ~ValidKeyText(env)
    /\ NeedsKey
    /\ http.out.status = 200

\* the kind of an outcome: a value, or a key-length, format or tamper error
OutcomeKind(out) ==
    IF out.ok THEN "value"
    ELSE IF out.err.msg \in FormatMessages THEN "format"
    ELSE IF out.err \in {KeyLengthError, NativeKeyError} THEN "key-length"
    ELSE "tamper"

\* the two outcomes are of the same kind, with the same value if any
SameOutcome(a, b) ==
    /\ OutcomeKind(a) = OutcomeKind(b)
    /\ a.ok => a.val = b.val

\* C30: the engine inlined in page.tsx is equivalent to encryption.ts: on
\* the same input both return the same value or fail with an error of the
\* same kind (key-length, format or tamper).
C30_InlinedEquivalent ==
    /\ last.op \in {"unwrapDEK", "unwrapWrapped"} =>
           SameOutcome(last.out, inlined_unwrapDEK(last.rec, last.key))
    /\ last.op \in {"decryptPayload", "decryptForged"} =>
           SameOutcome(last.out, inlined_decryptPayload(last.rec, last.key))
    /\ last.op = "wrapDEK" =>
           SameOutcome(last.out,
                       inlined_wrapDEK(last.arg.payload, last.key, rng - last.out.draws))
    /\ last.op = "encryptEnvelope" =>
           OutcomeKind(last.out) =
               OutcomeKind(inlined_encryptEnvelope(last.arg.partyId, last.arg.payload,
                                                   last.key, last.arg.createdAt,
                                                   rng - last.out.draws))

\* both engines refuse, with an error of the same kind
C30_Witness ==
    /\ last.op = "unwrapDEK"
    /\ Len(last.key) = KEY_LENGTH
    /\ last.out.err = UnwrapError
    /\ inlined_unwrapDEK(last.rec, last.key).err = NativeAuthError

====
